---- MODULE Spec2Model ----
(***************************************************************************)
(* Model of the nutrition estimation engine of src/estimate_nutrition.py:  *)
(* parse_serving_size, categorize_food, the category estimators and the    *)
(* normalisation done by estimate_nutrition.                               *)
(*                                                                         *)
(* Texts are strings.  A number is an exact fraction <<n, d>> (n/d, d > 0).*)
(* A value stored in a nutrition dict is an integer count of hundredths,   *)
(* so 280 kcal is stored as 28000 and 3.5 g as 350.                        *)
(*                                                                         *)
(* The arithmetic is exact decimal arithmetic.  Python computes in binary  *)
(* floating point: the two agree except where the exact value of a product *)
(* falls on a rounding tie (x.5 under round, x.x5 under round(x, 1)), where *)
(* the representation error of the float decides the direction.            *)
(***************************************************************************)
EXTENDS Integers, Sequences, FiniteSets, TLC

VARIABLES name, serving_size, tags, op, parsed, food_category, draft, nutr,
          menu_data, pc, hall_idx, meal_idx, cat_idx, item_idx, result, menu_exc,
          calls, first_call,
          daily_values, allocated, record_ids

\* the state of a call of process_menu_data: its argument, its position in the
\* four nested loops, the manifest under construction and the exception that
\* ended it; calls counts the invocations and first_call keeps the outcome of
\* the first one
menu_vars ==
    <<menu_data, pc, hall_idx, meal_idx, cat_idx, item_idx, result, menu_exc, calls,
      first_call>>

\* the state of a call of categorize_food, parse_serving_size or estimate_nutrition
item_vars == <<name, serving_size, tags, op, parsed, food_category, draft, nutr>>

\* the module's shared state: the DAILY_VALUES dict the module-level name is
\* bound to, the number of dicts create_base_nutrition has returned, and the
\* identities of the records estimate_nutrition has returned, in call order
module_vars == <<daily_values, allocated, record_ids>>

vars == <<item_vars, menu_vars, module_vars>>

(***************************************************************************)
(* Text primitives of Python's str.                                        *)
(***************************************************************************)

\* kw in s
Contains(s, kw) ==
    \E i \in 1..(Len(s) - Len(kw) + 1) : SubSeq(s, i, i + Len(kw) - 1) = kw

UpperChars == "ABCDEFGHIJKLMNOPQRSTUVWXYZ"
LowerChars == "abcdefghijklmnopqrstuvwxyz"

LowerChar(c) ==
    IF \E i \in 1..26 : SubSeq(UpperChars, i, i) = c
    THEN LET i == CHOOSE j \in 1..26 : SubSeq(UpperChars, j, j) = c
         IN  SubSeq(LowerChars, i, i)
    ELSE c

RECURSIVE Lower(_)
\* s.lower()
Lower(s) ==
    IF s = "" THEN ""
    ELSE LowerChar(SubSeq(s, 1, 1)) \o Lower(SubSeq(s, 2, Len(s)))

IsSpace(c) == c \in {" ", "\t", "\n", "\r"}

RECURSIVE LStrip(_)
LStrip(s) ==
    IF s # "" /\ IsSpace(SubSeq(s, 1, 1)) THEN LStrip(SubSeq(s, 2, Len(s))) ELSE s

RECURSIVE RStrip(_)
RStrip(s) ==
    IF s # "" /\ IsSpace(SubSeq(s, Len(s), Len(s)))
    THEN RStrip(SubSeq(s, 1, Len(s) - 1)) ELSE s

\* s.strip()
Strip(s) == RStrip(LStrip(s))

RECURSIVE Replace(_, _, _)
\* s.replace(old, new): left to right, occurrences do not overlap
Replace(s, old, new) ==
    IF Len(s) < Len(old) THEN s
    ELSE IF SubSeq(s, 1, Len(old)) = old
         THEN new \o Replace(SubSeq(s, Len(old) + 1, Len(s)), old, new)
         ELSE SubSeq(s, 1, 1) \o Replace(SubSeq(s, 2, Len(s)), old, new)

(***************************************************************************)
(* Numbers.                                                                *)
(***************************************************************************)

Q(n, d) == <<n, d>>
Mul(a, b) == <<a[1] * b[1], a[2] * b[2]>>
Div(a, b) == <<a[1] * b[2], a[2] * b[1]>>
Add(a, b) == <<a[1] * b[2] + b[1] * a[2], a[2] * b[2]>>
QEq(a, b) == a[1] * b[2] = b[1] * a[2]

\* int(x): the integer part (truncation toward zero)
PyInt(q) == IF q[1] >= 0 THEN q[1] \div q[2] ELSE -((-q[1]) \div q[2])

\* round(x): to the nearest integer, a tie to the even one
PyRound(q) ==
    LET f == q[1] \div q[2]
        r == q[1] - f * q[2]
    IN  IF 2 * r < q[2] THEN f
        ELSE IF 2 * r > q[2] THEN f + 1
        ELSE IF f % 2 = 0 THEN f ELSE f + 1

\* stored forms (hundredths) of int(x), round(x) and round(x, 1), of the literals
\* i and i/10, and the number a stored value stands for
IntOf(q) == 100 * PyInt(q)
RoundOf(q) == 100 * PyRound(q)
Round1Of(q) == 10 * PyRound(<<q[1] * 10, q[2]>>)
Whole(i) == 100 * i
Tenths(i) == 10 * i
Val(t) == <<t, 100>>
N(i) == <<i, 1>>

(***************************************************************************)
(* parse_serving_size                                                      *)
(***************************************************************************)

DigitChars == "0123456789"
IsDigit(c) == \E i \in 1..10 : SubSeq(DigitChars, i, i) = c
DigitVal(c) == (CHOOSE i \in 1..10 : SubSeq(DigitChars, i, i) = c) - 1
IsNumChar(c) == IsDigit(c) \/ c = "."

\* fraction_map, in dict order, each value as str(val) gives it
fraction_map ==
    << <<"1/2", "0.5">>, <<"1/3", "0.333">>, <<"1/4", "0.25">>,
       <<"2/3", "0.667">>, <<"3/4", "0.75">> >>

RECURSIVE ReplaceFractions(_, _)
\* the loop over fraction_map.items(), from entry i on
ReplaceFractions(s, i) ==
    IF i > Len(fraction_map) THEN s
    ELSE ReplaceFractions(
            IF Contains(s, fraction_map[i][1])
            THEN Replace(s, fraction_map[i][1], fraction_map[i][2])
            ELSE s,
            i + 1)

\* where the first digit or dot of s is; 0 when s has none
TokenStart(s) ==
    IF \E i \in 1..Len(s) : IsNumChar(SubSeq(s, i, i))
    THEN CHOOSE i \in 1..Len(s) :
            /\ IsNumChar(SubSeq(s, i, i))
            /\ \A j \in 1..(i - 1) : ~IsNumChar(SubSeq(s, j, j))
    ELSE 0

\* re.search(r'([\d.]+)', s).group(1); "" stands for no match
NumericToken(s) ==
    IF TokenStart(s) > 0
    THEN LET b == TokenStart(s)
             e == CHOOSE k \in b..Len(s) :
                     /\ \A j \in b..k : IsNumChar(SubSeq(s, j, j))
                     /\ (k = Len(s) \/ ~IsNumChar(SubSeq(s, k + 1, k + 1)))
         IN  SubSeq(s, b, e)
    ELSE ""

CountDots(t) == Cardinality({i \in 1..Len(t) : SubSeq(t, i, i) = "."})

\* float(t) accepts a run of digits and dots when it has a digit and at most one dot
IsFloatLiteral(t) == CountDots(t) <= 1 /\ \E i \in 1..Len(t) : IsDigit(SubSeq(t, i, i))

RECURSIVE DigitsValue(_)
DigitsValue(t) ==
    IF t = "" THEN 0
    ELSE LET c == SubSeq(t, Len(t), Len(t))
             rest == SubSeq(t, 1, Len(t) - 1)
         IN  IF c = "." THEN DigitsValue(rest)
             ELSE 10 * DigitsValue(rest) + DigitVal(c)

RECURSIVE Pow10(_)
Pow10(k) == IF k = 0 THEN 1 ELSE 10 * Pow10(k - 1)

DecimalPlaces(t) ==
    IF CountDots(t) = 0 THEN 0
    ELSE Len(t) - (CHOOSE i \in 1..Len(t) : SubSeq(t, i, i) = ".")

\* float(t) of an accepted literal, as an exact fraction
PyFloat(t) == <<DigitsValue(t), Pow10(DecimalPlaces(t))>>

Returned(a, u) == [exc |-> "none", amount |-> a, unit |-> u]
Raised(e) == [exc |-> e]

\* UnitOf with the ladle keyword kept as the unit instead of mapped to oz
UnitOf_ladle(s) ==
    IF Contains(s, "cup") THEN "cup"
    ELSE IF Contains(s, "oz") THEN "oz"
    ELSE IF Contains(s, "ladle") THEN "ladle"
    ELSE IF Contains(s, "slice") THEN "slice"
    ELSE IF Contains(s, "piece") THEN "piece"
    ELSE IF Contains(s, "potato") THEN "potato"
    ELSE IF Contains(s, "tortilla") THEN "tortilla"
    ELSE IF Contains(s, "burrito") THEN "burrito"
    ELSE IF Contains(s, "taco") THEN "taco"
    ELSE IF Contains(s, "quarter") THEN "quarter"
    ELSE IF Contains(s, "round") THEN "round"
    ELSE IF Contains(s, "ounce") THEN "oz"
    ELSE "serving"

UnitOf(s) ==
    IF Contains(s, "cup") THEN "cup"
    ELSE IF Contains(s, "oz") THEN "oz"
    ELSE IF Contains(s, "ladle") THEN "oz"
    ELSE IF Contains(s, "slice") THEN "slice"
    ELSE IF Contains(s, "piece") THEN "piece"
    ELSE IF Contains(s, "potato") THEN "potato"
    ELSE IF Contains(s, "tortilla") THEN "tortilla"
    ELSE IF Contains(s, "burrito") THEN "burrito"
    ELSE IF Contains(s, "taco") THEN "taco"
    ELSE IF Contains(s, "quarter") THEN "quarter"
    ELSE IF Contains(s, "round") THEN "round"
    ELSE IF Contains(s, "ounce") THEN "oz"
    ELSE "serving"

\* parse_serving_size with the pattern r'(-?[\d.]+)': a minus sign before the
\* token makes the amount negative
parse_serving_size_signed(serving_str) ==
    LET s == ReplaceFractions(Strip(Lower(serving_str)), 1)
        match == NumericToken(s)
        b == TokenStart(s)
        sign == IF b > 1 /\ SubSeq(s, b - 1, b - 1) = "-" THEN -1 ELSE 1
    IN  IF match # "" /\ ~IsFloatLiteral(match) THEN Raised("ValueError")
        ELSE Returned(IF match # "" THEN <<sign * PyFloat(match)[1], PyFloat(match)[2]>>
                      ELSE <<1, 1>>, UnitOf(s))

parse_serving_size(serving_str) ==
    LET s == ReplaceFractions(Strip(Lower(serving_str)), 1)
        match == NumericToken(s)
    IN  IF match # "" /\ ~IsFloatLiteral(match) THEN Raised("ValueError")
        ELSE Returned(IF match # "" THEN PyFloat(match) ELSE <<1, 1>>, UnitOf(s))

(***************************************************************************)
(* Nutrition dicts.  v maps each key to its value; w records the keys that *)
(* have been stored into the dict since create_base_nutrition built it.    *)
(***************************************************************************)

Fields ==
    {"calories", "calories_from_fat", "total_fat_g", "total_fat_dv",
     "saturated_fat_g", "saturated_fat_dv", "trans_fat_g", "cholesterol_mg",
     "cholesterol_dv", "sodium_mg", "sodium_dv", "total_carbs_g",
     "total_carbs_dv", "dietary_fiber_g", "dietary_fiber_dv", "sugars_g",
     "protein_g", "vitamin_a_dv", "vitamin_c_dv", "calcium_dv", "iron_dv"}

\* create_base_nutrition with the template missing its last key
create_base_nutrition_short ==
    [exc |-> "none", v |-> [f \in Fields \ {"iron_dv"} |-> 0], w |-> {}]

create_base_nutrition == [exc |-> "none", v |-> [f \in Fields |-> 0], w |-> {}]

\* nutr[k] = x
Put(n, k, x) == [exc |-> "none", v |-> (k :> x) @@ n.v, w |-> n.w \cup {k}]

\* the assignments nutr[k] = x of kvs = << <<k, x>>, ... >>, in order: each key
\* ends with the value of its last assignment
Store(n, kvs) ==
    LET keys == {kvs[i][1] : i \in DOMAIN kvs}
        last(k) == CHOOSE i \in DOMAIN kvs :
                      kvs[i][1] = k /\ \A j \in DOMAIN kvs : kvs[j][1] = k => j <= i
    IN  [exc |-> "none",
         v |-> [k \in DOMAIN n.v \cup keys |->
                   IF k \in keys THEN kvs[last(k)][2] ELSE n.v[k]],
         w |-> n.w \cup keys]

\* nutr[k] as a number, and nutr.get(k, 0)
Get(n, k) == Val(n.v[k])
GetOr0(n, k) == IF k \in DOMAIN n.v THEN Val(n.v[k]) ELSE N(0)

(***************************************************************************)
(* The category estimators.                                                *)
(***************************************************************************)

\* a variety branch that estimates every protein at 50 kcal and 7 g of protein
\* per unit of amount
ProteinVariety_generic(name_lower, amount, unit) ==
    Store(create_base_nutrition,
          << <<"calories", IntOf(Mul(N(50), amount))>>,
             <<"protein_g", RoundOf(Mul(N(7), amount))>> >>)

\* the variety branch of estimate_protein_nutrition (lines 118-188), on a new dict
ProteinVariety(name_lower, amount, unit) ==
    LET n0 == create_base_nutrition
    IN
    IF Contains(name_lower, "chicken") THEN
        IF unit = "quarter" \/ Contains(name_lower, "quarter") THEN
            Store(n0, << <<"calories", Whole(280)>>,
                         <<"total_fat_g", Whole(14)>>,
                         <<"saturated_fat_g", Whole(4)>>,
                         <<"cholesterol_mg", Whole(95)>>,
                         <<"sodium_mg", Whole(520)>>,
                         <<"protein_g", Whole(32)>>,
                         <<"total_carbs_g", Whole(2)>> >>)
        ELSE
            Store(n0, << <<"calories", IntOf(Mul(N(50), amount))>>,
                         <<"total_fat_g", Round1Of(Mul(Q(25, 10), amount))>>,
                         <<"saturated_fat_g", Round1Of(Mul(Q(7, 10), amount))>>,
                         <<"cholesterol_mg", IntOf(Mul(N(25), amount))>>,
                         <<"sodium_mg", IntOf(Mul(N(150), amount))>>,
                         <<"protein_g", RoundOf(Mul(N(7), amount))>> >>)
    ELSE IF Contains(name_lower, "salmon") THEN
        LET oz == IF unit = "oz" THEN amount ELSE N(4) IN
        Store(n0, << <<"calories", IntOf(Mul(N(58), oz))>>,
                     <<"total_fat_g", Round1Of(Div(Mul(Q(35, 10), oz), N(4)))>>,
                     <<"saturated_fat_g", Round1Of(Div(Mul(Q(8, 10), oz), N(4)))>>,
                     <<"cholesterol_mg", IntOf(Mul(N(18), oz))>>,
                     <<"sodium_mg", IntOf(Mul(N(150), oz))>>,
                     <<"protein_g", RoundOf(Mul(Q(65, 10), oz))>>,
                     <<"vitamin_a_dv", Whole(2)>>,
                     <<"iron_dv", Whole(4)>> >>)
    ELSE IF Contains(name_lower, "pork") THEN
        LET oz == IF unit = "oz" THEN amount ELSE N(3) IN
        Store(n0, << <<"calories", IntOf(Mul(N(55), oz))>>,
                     <<"total_fat_g", Round1Of(Div(Mul(N(3), oz), N(3)))>>,
                     <<"saturated_fat_g", Round1Of(Div(Mul(N(1), oz), N(3)))>>,
                     <<"cholesterol_mg", IntOf(Mul(N(22), oz))>>,
                     <<"sodium_mg", IntOf(Mul(N(180), oz))>>,
                     <<"protein_g", RoundOf(Mul(N(7), oz))>>,
                     <<"iron_dv", Whole(4)>> >>)
    ELSE IF Contains(name_lower, "calamari") THEN
        LET pieces == IF Contains(unit, "piece") THEN amount ELSE N(3) IN
        Store(n0, << <<"calories", IntOf(Mul(N(45), pieces))>>,
                     <<"total_fat_g", Round1Of(Mul(Q(15, 10), pieces))>>,
                     <<"cholesterol_mg", IntOf(Mul(N(30), pieces))>>,
                     <<"sodium_mg", IntOf(Mul(N(120), pieces))>>,
                     <<"protein_g", RoundOf(Mul(N(4), pieces))>>,
                     <<"total_carbs_g", IntOf(Mul(N(5), pieces))>> >>)
    ELSE IF Contains(name_lower, "pepperoni") THEN
        Store(n0, << <<"calories", Whole(320)>>,
                     <<"total_fat_g", Whole(15)>>,
                     <<"saturated_fat_g", Whole(6)>>,
                     <<"cholesterol_mg", Whole(35)>>,
                     <<"sodium_mg", Whole(750)>>,
                     <<"protein_g", Whole(14)>>,
                     <<"total_carbs_g", Whole(32)>> >>)
    ELSE IF Contains(name_lower, "meat sauce") THEN
        LET oz == IF unit = "oz" THEN amount ELSE N(3) IN
        Store(n0, << <<"calories", IntOf(Mul(N(35), oz))>>,
                     <<"total_fat_g", Round1Of(Div(Mul(N(2), oz), N(3)))>>,
                     <<"saturated_fat_g", Round1Of(Div(Mul(Q(8, 10), oz), N(3)))>>,
                     <<"cholesterol_mg", IntOf(Mul(N(8), oz))>>,
                     <<"sodium_mg", IntOf(Mul(N(180), oz))>>,
                     <<"protein_g", RoundOf(Mul(Q(25, 10), oz))>>,
                     <<"total_carbs_g", IntOf(Mul(N(3), oz))>> >>)
    ELSE n0

\* CookingMethod with the fried/grilled test before the baked/roast test
CookingMethod_fried_first(name_lower, n1) ==
    IF Contains(name_lower, "fried") \/ Contains(name_lower, "grilled") THEN
        Store(n1, << <<"total_fat_g", Round1Of(Mul(Get(n1, "total_fat_g"), Q(11, 10)))>>,
                     <<"calories", IntOf(Mul(Get(n1, "calories"), Q(105, 100)))>> >>)
    ELSE IF Contains(name_lower, "baked") \/ Contains(name_lower, "roast") THEN
        Put(n1, "total_fat_g", Round1Of(Mul(Get(n1, "total_fat_g"), Q(9, 10))))
    ELSE n1

\* the cooking-method adjustment of estimate_protein_nutrition (lines 190-195)
CookingMethod(name_lower, n1) ==
    IF Contains(name_lower, "baked") \/ Contains(name_lower, "roast") THEN
        Put(n1, "total_fat_g", Round1Of(Mul(Get(n1, "total_fat_g"), Q(9, 10))))
    ELSE IF Contains(name_lower, "fried") \/ Contains(name_lower, "grilled") THEN
        Store(n1, << <<"total_fat_g",
                       Round1Of(Mul(Get(n1, "total_fat_g"), Q(11, 10)))>>,
                     <<"calories",
                       IntOf(Mul(Get(n1, "calories"), Q(105, 100)))>> >>)
    ELSE n1

estimate_protein_nutrition(nm, serving, tg) ==
    LET p == parse_serving_size(serving)
        estimate(amount, unit) ==
            CookingMethod(Lower(nm), ProteinVariety(Lower(nm), amount, unit))
    IN  IF p.exc # "none" THEN Raised(p.exc) ELSE estimate(p.amount, p.unit)

\* a starch estimator whose mashed potatoes get no vegetarian supplement
estimate_starch_nutrition_no_dairy(nm, serving, tg) ==
    LET p == parse_serving_size(serving)
        estimate(oz) ==
            Store(create_base_nutrition,
                  << <<"calories", IntOf(Mul(N(30), oz))>>,
                     <<"total_fat_g", Round1Of(Div(Mul(N(2), oz), N(5)))>>,
                     <<"total_carbs_g", IntOf(Mul(N(5), oz))>>,
                     <<"sodium_mg", IntOf(Mul(N(100), oz))>> >>)
    IN  IF p.exc # "none" THEN Raised(p.exc)
        ELSE estimate(IF p.unit = "oz" THEN p.amount ELSE N(5))

\* a starch estimator that scales the baked potato by the parsed amount
estimate_starch_nutrition_scaled(nm, serving, tg) ==
    LET p == parse_serving_size(serving)
    IN  IF p.exc # "none" THEN Raised(p.exc)
        ELSE Store(create_base_nutrition,
                   << <<"calories", IntOf(Mul(N(160), p.amount))>> >>)

estimate_starch_nutrition(nm, serving, tg) ==
    LET p == parse_serving_size(serving)
        estimate(amount, unit) ==
            LET name_lower == Lower(nm)
                n0 == create_base_nutrition
            IN
            IF Contains(name_lower, "rice") THEN
                LET cups == IF unit = "cup" THEN amount ELSE Q(5, 10)
                    c2 == Mul(cups, N(2))
                    n1 ==
                        IF Contains(name_lower, "brown") THEN
                            Store(n0, << <<"calories", IntOf(Mul(N(110), c2))>>,
                                         <<"total_carbs_g", IntOf(Mul(N(23), c2))>>,
                                         <<"dietary_fiber_g", Round1Of(Mul(N(2), c2))>>,
                                         <<"protein_g", RoundOf(Mul(Q(25, 10), c2))>> >>)
                        ELSE IF Contains(name_lower, "fried") THEN
                            Store(n0, << <<"calories", IntOf(Mul(N(130), c2))>>,
                                         <<"total_fat_g", Round1Of(Mul(N(4), c2))>>,
                                         <<"total_carbs_g", IntOf(Mul(N(20), c2))>>,
                                         <<"sodium_mg", IntOf(Mul(N(400), c2))>>,
                                         <<"protein_g", RoundOf(Mul(N(3), c2))>> >>)
                        ELSE
                            Store(n0, << <<"calories", IntOf(Mul(N(105), c2))>>,
                                         <<"total_carbs_g", IntOf(Mul(N(22), c2))>>,
                                         <<"protein_g", RoundOf(Mul(N(2), c2))>> >>)
                IN  IF Contains(name_lower, "pilaf") \/ Contains(name_lower, "spanish") THEN
                        Store(n1, << <<"total_fat_g",
                                       Round1Of(Add(GetOr0(n1, "total_fat_g"), N(2)))>>,
                                     <<"sodium_mg",
                                       IntOf(Add(GetOr0(n1, "sodium_mg"), N(350)))>>,
                                     <<"calories", n1.v["calories"] + Whole(25)>> >>)
                    ELSE n1
            ELSE IF \/ Contains(name_lower, "pasta") \/ Contains(name_lower, "spaghetti")
                    \/ Contains(name_lower, "spirals") \/ Contains(name_lower, "farfalle") THEN
                LET cups == IF unit = "cup" THEN amount ELSE Q(33, 100)
                    c3 == Mul(cups, N(3))
                    n1 == Store(n0, << <<"calories", IntOf(Mul(N(100), c3))>>,
                                       <<"total_carbs_g", IntOf(Mul(N(20), c3))>>,
                                       <<"protein_g", RoundOf(Mul(Q(35, 10), c3))>>,
                                       <<"dietary_fiber_g", Round1Of(Mul(N(1), c3))>> >>)
                    n2 == IF Contains(name_lower, "whole wheat")
                          THEN Put(n1, "dietary_fiber_g", Round1Of(Mul(Q(25, 10), c3)))
                          ELSE n1
                    n3 == IF Contains(name_lower, "carbonara")
                          THEN Store(n2, << <<"calories", Whole(350)>>,
                                            <<"total_fat_g", Whole(18)>>,
                                            <<"saturated_fat_g", Whole(8)>>,
                                            <<"cholesterol_mg", Whole(65)>>,
                                            <<"sodium_mg", Whole(580)>>,
                                            <<"protein_g", Whole(14)>> >>)
                          ELSE n2
                    n4 == IF Contains(name_lower, "primavera")
                          THEN Store(n3, << <<"calories",
                                              IntOf(Mul(Get(n3, "calories"), Q(11, 10)))>>,
                                            <<"vitamin_a_dv", Whole(15)>>,
                                            <<"vitamin_c_dv", Whole(10)>>,
                                            <<"sodium_mg", Whole(380)>> >>)
                          ELSE n3
                IN  IF Contains(name_lower, "olive oil") \/ Contains(name_lower, "garlic") THEN
                        Store(n4, << <<"total_fat_g",
                                       Round1Of(Add(GetOr0(n4, "total_fat_g"), N(5)))>>,
                                     <<"calories", n4.v["calories"] + Whole(45)>> >>)
                    ELSE n4
            ELSE IF Contains(name_lower, "potato") THEN
                LET n1 == IF Contains(name_lower, "baked") \/ unit = "potato"
                          THEN Store(n0, << <<"calories", Whole(160)>>,
                                            <<"total_carbs_g", Whole(37)>>,
                                            <<"dietary_fiber_g", Whole(4)>>,
                                            <<"protein_g", Whole(4)>>,
                                            <<"vitamin_c_dv", Whole(28)>>,
                                            <<"potassium_mg", Whole(926)>>,
                                            <<"sodium_mg", Whole(17)>> >>)
                          ELSE n0
                    n2 == IF Contains(name_lower, "sweet")
                          THEN Store(n1, << <<"calories", Whole(180)>>,
                                            <<"total_carbs_g", Whole(41)>>,
                                            <<"sugars_g", Whole(13)>>,
                                            <<"dietary_fiber_g", Whole(6)>>,
                                            <<"vitamin_a_dv", Whole(380)>> >>)
                          ELSE n1
                IN  IF Contains(name_lower, "mashed") THEN
                        LET oz == IF unit = "oz" THEN amount ELSE N(5)
                            n3 == Store(n2, << <<"calories", IntOf(Mul(N(30), oz))>>,
                                               <<"total_fat_g", Round1Of(Div(Mul(N(2), oz), N(5)))>>,
                                               <<"total_carbs_g", IntOf(Mul(N(5), oz))>>,
                                               <<"sodium_mg", IntOf(Mul(N(100), oz))>> >>)
                        IN  IF "vegetarian" \in tg THEN
                                Store(n3, << <<"total_fat_g",
                                               Round1Of(Mul(Get(n3, "total_fat_g"), Q(12, 10)))>>,
                                             <<"calories", n3.v["calories"] + Whole(15)>> >>)
                            ELSE n3
                    ELSE n2
            ELSE IF Contains(name_lower, "quinoa") THEN
                LET cups == IF unit = "cup" THEN amount ELSE Q(5, 10)
                    c2 == Mul(cups, N(2))
                IN  Store(n0, << <<"calories", IntOf(Mul(N(110), c2))>>,
                                 <<"total_fat_g", Round1Of(Mul(Q(18, 10), c2))>>,
                                 <<"total_carbs_g", IntOf(Mul(N(20), c2))>>,
                                 <<"dietary_fiber_g", Round1Of(Mul(Q(25, 10), c2))>>,
                                 <<"protein_g", RoundOf(Mul(N(4), c2))>>,
                                 <<"iron_dv", IntOf(Mul(N(8), c2))>> >>)
            ELSE IF Contains(name_lower, "tortilla") THEN
                IF Contains(name_lower, "flour") THEN
                    Store(n0, << <<"calories", Whole(140)>>,
                                 <<"total_fat_g", Tenths(35)>>,
                                 <<"total_carbs_g", Whole(24)>>,
                                 <<"sodium_mg", Whole(340)>>,
                                 <<"protein_g", Whole(4)>> >>)
                ELSE IF Contains(name_lower, "corn") THEN
                    Store(n0, << <<"calories", Whole(60)>>,
                                 <<"total_fat_g", Whole(1)>>,
                                 <<"total_carbs_g", Whole(12)>>,
                                 <<"dietary_fiber_g", Tenths(15)>>,
                                 <<"sodium_mg", Whole(10)>>,
                                 <<"protein_g", Tenths(15)>> >>)
                ELSE IF Contains(name_lower, "wheat") THEN
                    Store(n0, << <<"calories", Whole(120)>>,
                                 <<"total_fat_g", Tenths(25)>>,
                                 <<"total_carbs_g", Whole(20)>>,
                                 <<"dietary_fiber_g", Whole(3)>>,
                                 <<"sodium_mg", Whole(300)>>,
                                 <<"protein_g", Whole(4)>> >>)
                ELSE n0
            ELSE n0
    IN  IF p.exc # "none" THEN Raised(p.exc) ELSE estimate(p.amount, p.unit)

estimate_vegetable_nutrition(nm, serving, tg) ==
    LET p == parse_serving_size(serving)
        estimate(amount, unit) ==
            LET is_vegan == "vegan" \in tg
                name_lower == Lower(nm)
                cups == IF unit = "cup" THEN amount ELSE Q(5, 10)
                c2 == Mul(cups, N(2))
                n0 == create_base_nutrition
                n1 ==
                    IF Contains(name_lower, "broccoli") THEN
                        Store(n0, << <<"calories", IntOf(Mul(N(27), c2))>>,
                                     <<"total_carbs_g", IntOf(Mul(N(5), c2))>>,
                                     <<"dietary_fiber_g", Round1Of(Mul(Q(25, 10), c2))>>,
                                     <<"protein_g", RoundOf(Mul(Q(25, 10), c2))>>,
                                     <<"vitamin_c_dv", IntOf(Mul(N(90), c2))>>,
                                     <<"vitamin_a_dv", IntOf(Mul(N(10), c2))>>,
                                     <<"calcium_dv", IntOf(Mul(N(4), c2))>> >>)
                    ELSE IF Contains(name_lower, "cauliflower") THEN
                        Store(n0, << <<"calories", IntOf(Mul(N(25), c2))>>,
                                     <<"total_carbs_g", IntOf(Mul(N(5), c2))>>,
                                     <<"dietary_fiber_g", Round1Of(Mul(N(2), c2))>>,
                                     <<"protein_g", RoundOf(Mul(N(2), c2))>>,
                                     <<"vitamin_c_dv", IntOf(Mul(N(50), c2))>> >>)
                    ELSE IF Contains(name_lower, "carrot") THEN
                        Store(n0, << <<"calories", IntOf(Mul(N(25), c2))>>,
                                     <<"total_carbs_g", IntOf(Mul(N(6), c2))>>,
                                     <<"sugars_g", IntOf(Mul(N(3), c2))>>,
                                     <<"dietary_fiber_g", Round1Of(Mul(Q(15, 10), c2))>>,
                                     <<"vitamin_a_dv", IntOf(Mul(N(200), c2))>> >>)
                    ELSE IF Contains(name_lower, "green bean") THEN
                        Store(n0, << <<"calories", IntOf(Mul(N(22), c2))>>,
                                     <<"total_carbs_g", IntOf(Mul(N(5), c2))>>,
                                     <<"dietary_fiber_g", Round1Of(Mul(N(2), c2))>>,
                                     <<"protein_g", RoundOf(Mul(N(1), c2))>>,
                                     <<"vitamin_c_dv", IntOf(Mul(N(15), c2))>>,
                                     <<"vitamin_a_dv", IntOf(Mul(N(8), c2))>> >>)
                    ELSE IF Contains(name_lower, "spinach") THEN
                        Store(n0, << <<"calories", IntOf(Mul(N(7), c2))>>,
                                     <<"total_carbs_g", IntOf(Mul(N(1), c2))>>,
                                     <<"dietary_fiber_g", Round1Of(Mul(Q(7, 10), c2))>>,
                                     <<"protein_g", RoundOf(Mul(N(1), c2))>>,
                                     <<"vitamin_a_dv", IntOf(Mul(N(56), c2))>>,
                                     <<"vitamin_c_dv", IntOf(Mul(N(14), c2))>>,
                                     <<"iron_dv", IntOf(Mul(N(5), c2))>> >>)
                    ELSE IF Contains(name_lower, "cabbage") THEN
                        Store(n0, << <<"calories", IntOf(Mul(N(17), c2))>>,
                                     <<"total_carbs_g", IntOf(Mul(N(4), c2))>>,
                                     <<"dietary_fiber_g", Round1Of(Mul(N(1), c2))>>,
                                     <<"vitamin_c_dv", IntOf(Mul(N(30), c2))>> >>)
                    ELSE
                        Store(n0, << <<"calories", IntOf(Mul(N(25), c2))>>,
                                     <<"total_carbs_g", IntOf(Mul(N(5), c2))>>,
                                     <<"dietary_fiber_g", Round1Of(Mul(N(2), c2))>>,
                                     <<"vitamin_a_dv", Whole(10)>>,
                                     <<"vitamin_c_dv", Whole(10)>> >>)
                \* fat unless vegan
                n2 ==
                    IF ~is_vegan THEN
                        Store(n1, << <<"total_fat_g",
                                       Round1Of(Add(GetOr0(n1, "total_fat_g"), N(2)))>>,
                                     <<"calories", n1.v["calories"] + Whole(18)>>,
                                     <<"cholesterol_mg", Whole(5)>> >>)
                    ELSE n1
            IN  Put(n2, "sodium_mg", GetOr0(n2, "sodium_mg")[1] + Whole(150))
    IN  IF p.exc # "none" THEN Raised(p.exc) ELSE estimate(p.amount, p.unit)

estimate_soup_nutrition(nm, serving, tg) ==
    LET p == parse_serving_size(serving)
        estimate(amount, unit) ==
            LET oz == IF unit = "oz" THEN amount ELSE N(6)
                name_lower == Lower(nm)
                n0 == create_base_nutrition
            IN
            IF Contains(name_lower, "tomato") \/ Contains(name_lower, "cream") THEN
                LET n1 == Store(n0, << <<"calories", IntOf(Mul(N(25), oz))>>,
                                       <<"total_fat_g", Round1Of(Div(Mul(Q(15, 10), oz), N(6)))>> >>)
                    n2 == IF Contains(name_lower, "cream")
                          THEN Store(n1, << <<"total_fat_g", Round1Of(Div(Mul(N(3), oz), N(6)))>>,
                                            <<"saturated_fat_g",
                                              Round1Of(Div(Mul(Q(15, 10), oz), N(6)))>> >>)
                          ELSE n1
                IN  Store(n2, << <<"total_carbs_g", IntOf(Mul(N(3), oz))>>,
                                 <<"sugars_g", IntOf(Div(Mul(N(2), oz), N(6)))>>,
                                 <<"sodium_mg", IntOf(Mul(N(120), oz))>>,
                                 <<"protein_g", RoundOf(Div(Mul(N(1), oz), N(6)))>>,
                                 <<"vitamin_a_dv", Whole(10)>>,
                                 <<"vitamin_c_dv", Whole(15)>> >>)
            ELSE IF Contains(name_lower, "potato") \/ Contains(name_lower, "leek") THEN
                Store(n0, << <<"calories", IntOf(Mul(N(22), oz))>>,
                             <<"total_fat_g", Round1Of(Div(Mul(N(1), oz), N(6)))>>,
                             <<"total_carbs_g", IntOf(Mul(N(3), oz))>>,
                             <<"sodium_mg", IntOf(Mul(N(110), oz))>>,
                             <<"protein_g", RoundOf(Div(Mul(Q(8, 10), oz), N(6)))>> >>)
            ELSE IF Contains(name_lower, "chili") THEN
                Store(n0, << <<"calories", IntOf(Mul(N(35), oz))>>,
                             <<"total_fat_g", Round1Of(Div(Mul(N(2), oz), N(6)))>>,
                             <<"total_carbs_g", IntOf(Mul(N(3), oz))>>,
                             <<"dietary_fiber_g", Round1Of(Div(Mul(Q(15, 10), oz), N(6)))>>,
                             <<"sodium_mg", IntOf(Mul(N(150), oz))>>,
                             <<"protein_g", RoundOf(Div(Mul(N(3), oz), N(6)))>>,
                             <<"iron_dv", Whole(8)>> >>)
            ELSE
                Store(n0, << <<"calories", IntOf(Mul(N(20), oz))>>,
                             <<"total_carbs_g", IntOf(Mul(N(3), oz))>>,
                             <<"sodium_mg", IntOf(Mul(N(130), oz))>> >>)
    IN  IF p.exc # "none" THEN Raised(p.exc) ELSE estimate(p.amount, p.unit)

estimate_pizza_nutrition(nm, serving, tg) ==
    LET name_lower == Lower(nm)
        n0 == create_base_nutrition
        \* base cheese pizza
        n1 == Store(n0, << <<"calories", Whole(280)>>,
                           <<"total_fat_g", Whole(11)>>,
                           <<"saturated_fat_g", Whole(5)>>,
                           <<"cholesterol_mg", Whole(25)>>,
                           <<"sodium_mg", Whole(620)>>,
                           <<"total_carbs_g", Whole(32)>>,
                           <<"sugars_g", Whole(3)>>,
                           <<"protein_g", Whole(12)>>,
                           <<"calcium_dv", Whole(20)>> >>)
        n2 ==
            IF Contains(name_lower, "pepperoni") THEN
                Store(n1, << <<"calories", Whole(320)>>,
                             <<"total_fat_g", Whole(15)>>,
                             <<"saturated_fat_g", Whole(6)>>,
                             <<"cholesterol_mg", Whole(35)>>,
                             <<"sodium_mg", Whole(750)>>,
                             <<"protein_g", Whole(14)>> >>)
            ELSE IF Contains(name_lower, "chicken") THEN
                Store(n1, << <<"calories", Whole(300)>>,
                             <<"total_fat_g", Whole(12)>>,
                             <<"protein_g", Whole(16)>>,
                             <<"sodium_mg", Whole(680)>> >>)
            ELSE IF \/ Contains(name_lower, "mushroom") \/ Contains(name_lower, "veggie")
                    \/ Contains(name_lower, "vegetable") THEN
                Store(n1, << <<"calories", Whole(260)>>,
                             <<"total_fat_g", Whole(10)>>,
                             <<"vitamin_a_dv", Whole(8)>> >>)
            ELSE n1
    IN  IF Contains(name_lower, "wheat")
        THEN Store(n2, << <<"dietary_fiber_g", Whole(3)>>,
                          <<"total_carbs_g", Whole(30)>> >>)
        ELSE n2

estimate_mexican_nutrition(nm, serving, tg) ==
    LET is_vegan == "vegan" \in tg
        name_lower == Lower(nm)
        n0 == create_base_nutrition
    IN
    IF Contains(name_lower, "burrito") THEN
        LET n1 == Store(n0, << <<"calories", Whole(450)>>,
                               <<"total_fat_g", Whole(14)>>,
                               <<"saturated_fat_g", Whole(5)>>,
                               <<"total_carbs_g", Whole(55)>>,
                               <<"dietary_fiber_g", Whole(6)>>,
                               <<"sodium_mg", Whole(980)>>,
                               <<"protein_g", Whole(22)>> >>)
            n2 == IF Contains(name_lower, "bean")
                  THEN Store(n1, << <<"dietary_fiber_g", Whole(9)>>,
                                    <<"protein_g", Whole(18)>> >>)
                  ELSE n1
        IN  IF is_vegan \/ Contains(name_lower, "vegetable")
            THEN Store(n2, << <<"calories", Whole(380)>>,
                              <<"total_fat_g", Whole(10)>>,
                              <<"cholesterol_mg", Whole(0)>>,
                              <<"protein_g", Whole(12)>> >>)
            ELSE n2
    ELSE IF Contains(name_lower, "taco") THEN
        LET n1 == Store(n0, << <<"calories", Whole(180)>>,
                               <<"total_fat_g", Whole(9)>>,
                               <<"saturated_fat_g", Whole(3)>>,
                               <<"total_carbs_g", Whole(15)>>,
                               <<"sodium_mg", Whole(350)>>,
                               <<"protein_g", Whole(10)>> >>)
        IN  IF is_vegan \/ Contains(name_lower, "vegetable")
            THEN Store(n1, << <<"calories", Whole(140)>>,
                              <<"total_fat_g", Whole(6)>>,
                              <<"cholesterol_mg", Whole(0)>>,
                              <<"protein_g", Whole(4)>> >>)
            ELSE n1
    ELSE IF Contains(name_lower, "salsa") THEN
        Store(n0, << <<"calories", Whole(10)>>,
                     <<"total_carbs_g", Whole(2)>>,
                     <<"sodium_mg", Whole(150)>>,
                     <<"vitamin_c_dv", Whole(8)>> >>)
    ELSE n0

\* a beans estimator that takes the parsed amount as cups whatever the unit
estimate_beans_nutrition_by_amount(nm, serving, tg) ==
    LET p == parse_serving_size(serving)
        estimate(cups) ==
            Store(create_base_nutrition,
                  << <<"calories", IntOf(Mul(Mul(N(115), cups), N(2)))>>,
                     <<"dietary_fiber_g", Round1Of(Mul(Mul(Q(75, 10), cups), N(2)))>> >>)
    IN  IF p.exc # "none" THEN Raised(p.exc) ELSE estimate(p.amount)

estimate_beans_nutrition(nm, serving, tg) ==
    LET p == parse_serving_size(serving)
        estimate(amount, unit) ==
            LET cups == IF unit = "cup" THEN amount ELSE Q(5, 10)
                c2 == Mul(cups, N(2))
                name_lower == Lower(nm)
                n0 == create_base_nutrition
            IN
            IF Contains(name_lower, "black") THEN
                Store(n0, << <<"calories", IntOf(Mul(N(115), c2))>>,
                             <<"total_fat_g", Round1Of(Mul(Q(5, 10), c2))>>,
                             <<"total_carbs_g", IntOf(Mul(N(20), c2))>>,
                             <<"dietary_fiber_g", Round1Of(Mul(Q(75, 10), c2))>>,
                             <<"protein_g", RoundOf(Mul(Q(75, 10), c2))>>,
                             <<"iron_dv", IntOf(Mul(N(10), c2))>>,
                             <<"sodium_mg", IntOf(Mul(N(200), c2))>> >>)
            ELSE IF Contains(name_lower, "refried") THEN
                Store(n0, << <<"calories", IntOf(Mul(N(120), c2))>>,
                             <<"total_fat_g", Round1Of(Mul(N(2), c2))>>,
                             <<"total_carbs_g", IntOf(Mul(N(18), c2))>>,
                             <<"dietary_fiber_g", Round1Of(Mul(N(6), c2))>>,
                             <<"protein_g", RoundOf(Mul(N(7), c2))>>,
                             <<"sodium_mg", IntOf(Mul(N(450), c2))>> >>)
            ELSE
                Store(n0, << <<"calories", IntOf(Mul(N(110), c2))>>,
                             <<"total_carbs_g", IntOf(Mul(N(19), c2))>>,
                             <<"dietary_fiber_g", Round1Of(Mul(N(6), c2))>>,
                             <<"protein_g", RoundOf(Mul(N(7), c2))>>,
                             <<"sodium_mg", IntOf(Mul(N(250), c2))>> >>)
    IN  IF p.exc # "none" THEN Raised(p.exc) ELSE estimate(p.amount, p.unit)

estimate_salad_nutrition(nm, serving, tg) ==
    LET p == parse_serving_size(serving)
        estimate(amount, unit) ==
            LET has_nuts == "contains_nuts" \in tg
                name_lower == Lower(nm)
                cups == IF unit = "cup" THEN amount ELSE Q(5, 10)
                c2 == Mul(cups, N(2))
                n0 == create_base_nutrition
                n1 ==
                    IF Contains(name_lower, "caesar") THEN
                        Store(n0, << <<"calories", IntOf(Mul(N(90), c2))>>,
                                     <<"total_fat_g", Round1Of(Mul(N(7), c2))>>,
                                     <<"saturated_fat_g", Round1Of(Mul(Q(15, 10), c2))>>,
                                     <<"total_carbs_g", IntOf(Mul(N(4), c2))>>,
                                     <<"sodium_mg", IntOf(Mul(N(200), c2))>>,
                                     <<"protein_g", RoundOf(Mul(N(3), c2))>>,
                                     <<"vitamin_a_dv", Whole(35)>>,
                                     <<"cholesterol_mg", Whole(10)>> >>)
                    ELSE IF Contains(name_lower, "spinach") THEN
                        LET m1 == Store(n0, << <<"calories", IntOf(Mul(N(80), c2))>>,
                                               <<"total_fat_g", Round1Of(Mul(N(5), c2))>>,
                                               <<"total_carbs_g", IntOf(Mul(N(6), c2))>>,
                                               <<"dietary_fiber_g", Round1Of(Mul(N(2), c2))>>,
                                               <<"sodium_mg", IntOf(Mul(N(180), c2))>>,
                                               <<"vitamin_a_dv", Whole(60)>>,
                                               <<"iron_dv", Whole(8)>> >>)
                        IN  IF Contains(name_lower, "bacon")
                            THEN Store(m1, << <<"calories", m1.v["calories"] + Whole(50)>>,
                                              <<"total_fat_g", m1.v["total_fat_g"] + Whole(4)>>,
                                              <<"sodium_mg", m1.v["sodium_mg"] + Whole(180)>>,
                                              <<"cholesterol_mg", Whole(15)>> >>)
                            ELSE m1
                    ELSE
                        Store(n0, << <<"calories", IntOf(Mul(N(50), c2))>>,
                                     <<"total_fat_g", Round1Of(Mul(N(3), c2))>>,
                                     <<"total_carbs_g", IntOf(Mul(N(5), c2))>>,
                                     <<"vitamin_a_dv", Whole(30)>>,
                                     <<"vitamin_c_dv", Whole(15)>> >>)
            IN  IF has_nuts
                THEN Store(n1, << <<"calories", n1.v["calories"] + Whole(80)>>,
                                  <<"total_fat_g", n1.v["total_fat_g"] + Whole(7)>>,
                                  <<"protein_g", n1.v["protein_g"] + Whole(2)>> >>)
                ELSE n1
    IN  IF p.exc # "none" THEN Raised(p.exc) ELSE estimate(p.amount, p.unit)

estimate_bread_nutrition(nm, serving, tg) ==
    LET name_lower == Lower(nm)
        n0 == create_base_nutrition
    IN
    IF Contains(name_lower, "breadstick") THEN
        Store(n0, << <<"calories", Whole(140)>>,
                     <<"total_fat_g", Whole(4)>>,
                     <<"total_carbs_g", Whole(22)>>,
                     <<"sodium_mg", Whole(280)>>,
                     <<"protein_g", Whole(4)>> >>)
    ELSE IF Contains(name_lower, "pizza bread") THEN
        Store(n0, << <<"calories", Whole(180)>>,
                     <<"total_fat_g", Whole(6)>>,
                     <<"saturated_fat_g", Whole(2)>>,
                     <<"total_carbs_g", Whole(26)>>,
                     <<"sodium_mg", Whole(380)>>,
                     <<"protein_g", Whole(6)>>,
                     <<"calcium_dv", Whole(10)>> >>)
    ELSE IF Contains(name_lower, "pesto bread") THEN
        Store(n0, << <<"calories", Whole(160)>>,
                     <<"total_fat_g", Whole(7)>>,
                     <<"total_carbs_g", Whole(20)>>,
                     <<"sodium_mg", Whole(320)>>,
                     <<"protein_g", Whole(5)>> >>)
    ELSE
        Store(n0, << <<"calories", Whole(150)>>,
                     <<"total_fat_g", Whole(3)>>,
                     <<"total_carbs_g", Whole(26)>>,
                     <<"sodium_mg", Whole(280)>>,
                     <<"protein_g", Whole(5)>> >>)

\* a dessert estimator that scales by the parsed amount, as the nine parsing
\* estimators do
estimate_dessert_nutrition_scaled(nm, serving, tg) ==
    LET p == parse_serving_size(serving)
    IN  IF p.exc # "none" THEN Raised(p.exc)
        ELSE Store(create_base_nutrition,
                   << <<"calories", IntOf(Mul(N(350), p.amount))>> >>)

estimate_dessert_nutrition(nm, serving, tg) ==
    LET is_vegan == "vegan" \in tg
        name_lower == Lower(nm)
        n0 == create_base_nutrition
    IN
    IF Contains(name_lower, "cake") THEN
        LET n1 == Store(n0, << <<"calories", Whole(350)>>,
                               <<"total_fat_g", Whole(16)>>,
                               <<"saturated_fat_g", Whole(4)>>,
                               <<"total_carbs_g", Whole(48)>>,
                               <<"sugars_g", Whole(32)>>,
                               <<"sodium_mg", Whole(350)>>,
                               <<"protein_g", Whole(4)>> >>)
        IN  IF Contains(name_lower, "chocolate")
            THEN Store(n1, << <<"calories", Whole(380)>>,
                              <<"total_fat_g", Whole(18)>>,
                              <<"sugars_g", Whole(36)>> >>)
            ELSE n1
    ELSE IF Contains(name_lower, "pie") THEN
        LET n1 == Store(n0, << <<"calories", Whole(320)>>,
                               <<"total_fat_g", Whole(14)>>,
                               <<"saturated_fat_g", Whole(4)>>,
                               <<"total_carbs_g", Whole(45)>>,
                               <<"sugars_g", Whole(24)>>,
                               <<"sodium_mg", Whole(280)>>,
                               <<"protein_g", Whole(3)>> >>)
        IN  IF is_vegan
            THEN Store(n1, << <<"cholesterol_mg", Whole(0)>>,
                              <<"total_fat_g", Whole(12)>> >>)
            ELSE n1
    ELSE IF Contains(name_lower, "crisp") THEN
        LET n1 == Store(n0, << <<"calories", Whole(280)>>,
                               <<"total_fat_g", Whole(10)>>,
                               <<"total_carbs_g", Whole(45)>>,
                               <<"sugars_g", Whole(28)>>,
                               <<"dietary_fiber_g", Whole(3)>>,
                               <<"sodium_mg", Whole(150)>> >>)
        IN  IF is_vegan THEN Put(n1, "cholesterol_mg", Whole(0)) ELSE n1
    ELSE IF Contains(name_lower, "quiche") THEN
        Store(n0, << <<"calories", Whole(350)>>,
                     <<"total_fat_g", Whole(24)>>,
                     <<"saturated_fat_g", Whole(10)>>,
                     <<"cholesterol_mg", Whole(165)>>,
                     <<"total_carbs_g", Whole(18)>>,
                     <<"sodium_mg", Whole(480)>>,
                     <<"protein_g", Whole(14)>>,
                     <<"vitamin_a_dv", Whole(15)>>,
                     <<"calcium_dv", Whole(15)>> >>)
    ELSE
        Store(n0, << <<"calories", Whole(300)>>,
                     <<"total_fat_g", Whole(12)>>,
                     <<"total_carbs_g", Whole(42)>>,
                     <<"sugars_g", Whole(25)>>,
                     <<"sodium_mg", Whole(200)>> >>)

estimate_sauce_nutrition(nm, serving, tg) ==
    LET p == parse_serving_size(serving)
        estimate(amount, unit) ==
            LET oz == IF unit = "oz" THEN amount ELSE N(3)
                name_lower == Lower(nm)
                n0 == create_base_nutrition
            IN
            IF Contains(name_lower, "marinara") \/ Contains(name_lower, "tomato") THEN
                Store(n0, << <<"calories", IntOf(Mul(N(15), oz))>>,
                             <<"total_carbs_g", IntOf(Div(Mul(N(3), oz), N(3)))>>,
                             <<"sugars_g", IntOf(Div(Mul(N(2), oz), N(3)))>>,
                             <<"sodium_mg", IntOf(Mul(N(150), oz))>>,
                             <<"vitamin_a_dv", Whole(5)>>,
                             <<"vitamin_c_dv", Whole(8)>> >>)
            ELSE
                Store(n0, << <<"calories", IntOf(Mul(N(20), oz))>>,
                             <<"total_carbs_g", IntOf(Div(Mul(N(3), oz), N(3)))>>,
                             <<"sodium_mg", IntOf(Mul(N(180), oz))>> >>)
    IN  IF p.exc # "none" THEN Raised(p.exc) ELSE estimate(p.amount, p.unit)

estimate_sushi_nutrition(nm, serving, tg) ==
    LET p == parse_serving_size(serving)
        estimate(amount, unit) ==
            LET pieces == IF Contains(unit, "piece") THEN amount ELSE N(3)
                is_vegan == "vegan" \in tg
                n0 == create_base_nutrition
                n1 == Store(n0, << <<"calories", IntOf(Mul(N(40), pieces))>>,
                                   <<"total_fat_g", Round1Of(Mul(N(1), pieces))>>,
                                   <<"total_carbs_g", IntOf(Mul(N(7), pieces))>>,
                                   <<"sodium_mg", IntOf(Mul(N(100), pieces))>>,
                                   <<"protein_g", RoundOf(Mul(N(2), pieces))>> >>)
            IN  IF ~is_vegan
                THEN Store(n1, << <<"protein_g", RoundOf(Mul(N(3), pieces))>>,
                                  <<"cholesterol_mg", IntOf(Mul(N(10), pieces))>> >>)
                ELSE n1
    IN  IF p.exc # "none" THEN Raised(p.exc) ELSE estimate(p.amount, p.unit)

\* a pad thai estimator that divides the amount by 10 whatever the unit
estimate_pad_thai_nutrition_per_oz(nm, serving, tg) ==
    LET p == parse_serving_size(serving)
        estimate(multiplier) ==
            IF Contains(Lower(nm), "chicken")
            THEN Store(create_base_nutrition,
                       << <<"calories", IntOf(Mul(N(450), multiplier))>>,
                          <<"cholesterol_mg",
                            IF "vegan" \in tg THEN Whole(0)
                            ELSE IntOf(Mul(N(65), multiplier))>> >>)
            ELSE Store(create_base_nutrition,
                       << <<"calories", IntOf(Mul(N(380), multiplier))>> >>)
    IN  IF p.exc # "none" THEN Raised(p.exc) ELSE estimate(Div(p.amount, N(10)))

estimate_pad_thai_nutrition(nm, serving, tg) ==
    LET p == parse_serving_size(serving)
        estimate(amount, unit) ==
            LET is_vegan == "vegan" \in tg
                has_nuts == "contains_nuts" \in tg
                multiplier == IF unit = "oz" THEN Div(amount, N(10))
                              ELSE IF unit = "cup" THEN amount
                              ELSE N(1)
                n0 == create_base_nutrition
                \* base vegetable pad thai
                n1 == Store(n0, << <<"calories", IntOf(Mul(N(380), multiplier))>>,
                                   <<"total_fat_g", Round1Of(Mul(N(12), multiplier))>>,
                                   <<"saturated_fat_g", Round1Of(Mul(N(2), multiplier))>>,
                                   <<"total_carbs_g", IntOf(Mul(N(55), multiplier))>>,
                                   <<"sugars_g", IntOf(Mul(N(8), multiplier))>>,
                                   <<"dietary_fiber_g", Round1Of(Mul(N(3), multiplier))>>,
                                   <<"sodium_mg", IntOf(Mul(N(800), multiplier))>>,
                                   <<"protein_g", RoundOf(Mul(N(10), multiplier))>>,
                                   <<"vitamin_a_dv", IntOf(Mul(N(6), multiplier))>>,
                                   <<"vitamin_c_dv", IntOf(Mul(N(10), multiplier))>>,
                                   <<"iron_dv", IntOf(Mul(N(10), multiplier))>> >>)
                n2 == IF Contains(Lower(nm), "chicken")
                      THEN Store(n1, << <<"protein_g", RoundOf(Mul(N(22), multiplier))>>,
                                        <<"calories", IntOf(Mul(N(450), multiplier))>>,
                                        <<"cholesterol_mg", IntOf(Mul(N(65), multiplier))>>,
                                        <<"total_fat_g", Round1Of(Mul(N(14), multiplier))>> >>)
                      ELSE n1
                n3 == IF is_vegan THEN Put(n2, "cholesterol_mg", Whole(0)) ELSE n2
            IN  IF has_nuts
                THEN Store(n3, << <<"calories",
                                    n3.v["calories"] + IntOf(Mul(N(50), multiplier))>>,
                                  <<"total_fat_g",
                                    Round1Of(Add(Get(n3, "total_fat_g"), Mul(N(4), multiplier)))>>,
                                  <<"protein_g",
                                    n3.v["protein_g"] + RoundOf(Mul(N(2), multiplier))>> >>)
                ELSE n3
    IN  IF p.exc # "none" THEN Raised(p.exc) ELSE estimate(p.amount, p.unit)

(***************************************************************************)
(* categorize_food                                                         *)
(***************************************************************************)

\* any(x in s for x in kws)
AnyIn(s, kws) == \E x \in kws : Contains(s, x)

\* categorize_food with the beans rule missing its "green" exclusion
categorize_food_any_bean(nm, tg) ==
    LET name_lower == Lower(nm) IN
    IF Contains(name_lower, "pad thai") THEN "pad_thai"
    ELSE IF AnyIn(name_lower, {"chicken", "salmon", "pork", "beef", "fish", "meat",
                               "calamari", "pepperoni"}) THEN "protein"
    ELSE IF AnyIn(name_lower, {"rice", "pasta", "spaghetti", "potato", "quinoa",
                               "tortilla", "spirals", "farfalle"}) THEN "starch"
    ELSE IF AnyIn(name_lower, {"broccoli", "cauliflower", "carrot", "green bean",
                               "spinach", "cabbage", "vegetable", "bean sprout"})
         THEN "vegetable"
    ELSE IF AnyIn(name_lower, {"soup", "chili"}) THEN "soup"
    ELSE IF Contains(name_lower, "pizza") THEN "pizza"
    ELSE IF AnyIn(name_lower, {"burrito", "taco", "salsa"}) THEN "mexican"
    ELSE IF Contains(name_lower, "bean") THEN "beans"
    ELSE IF Contains(name_lower, "salad") THEN "salad"
    ELSE IF AnyIn(name_lower, {"bread", "breadstick"}) THEN "bread"
    ELSE IF AnyIn(name_lower, {"cake", "pie", "cookie", "crisp", "quiche"}) THEN "dessert"
    ELSE IF AnyIn(name_lower, {"sauce", "marinara"}) THEN "sauce"
    ELSE IF Contains(name_lower, "roll") THEN "sushi"
    ELSE IF Contains(name_lower, "pad thai") THEN "pad_thai"
    ELSE "generic"

\* categorize_food with the protein rule tried before the pad thai rule
categorize_food_protein_first(nm, tg) ==
    LET name_lower == Lower(nm) IN
    IF AnyIn(name_lower, {"chicken", "salmon", "pork", "beef", "fish", "meat",
                          "calamari", "pepperoni"}) THEN "protein"
    ELSE IF Contains(name_lower, "pad thai") THEN "pad_thai"
    ELSE IF AnyIn(name_lower, {"rice", "pasta", "spaghetti", "potato", "quinoa",
                               "tortilla", "spirals", "farfalle"}) THEN "starch"
    ELSE IF AnyIn(name_lower, {"broccoli", "cauliflower", "carrot", "green bean",
                               "spinach", "cabbage", "vegetable", "bean sprout"})
         THEN "vegetable"
    ELSE IF AnyIn(name_lower, {"soup", "chili"}) THEN "soup"
    ELSE IF Contains(name_lower, "pizza") THEN "pizza"
    ELSE IF AnyIn(name_lower, {"burrito", "taco", "salsa"}) THEN "mexican"
    ELSE IF Contains(name_lower, "bean") /\ ~Contains(name_lower, "green") THEN "beans"
    ELSE IF Contains(name_lower, "salad") THEN "salad"
    ELSE IF AnyIn(name_lower, {"bread", "breadstick"}) THEN "bread"
    ELSE IF AnyIn(name_lower, {"cake", "pie", "cookie", "crisp", "quiche"}) THEN "dessert"
    ELSE IF AnyIn(name_lower, {"sauce", "marinara"}) THEN "sauce"
    ELSE IF Contains(name_lower, "roll") THEN "sushi"
    ELSE IF Contains(name_lower, "pad thai") THEN "pad_thai"
    ELSE "generic"

\* categorize_food with the fallback depending on the tags
categorize_food_tagged(nm, tg) ==
    LET name_lower == Lower(nm) IN
    IF Contains(name_lower, "pad thai") THEN "pad_thai"
    ELSE IF AnyIn(name_lower, {"chicken", "salmon", "pork", "beef", "fish", "meat",
                               "calamari", "pepperoni"}) THEN "protein"
    ELSE IF AnyIn(name_lower, {"rice", "pasta", "spaghetti", "potato", "quinoa",
                               "tortilla", "spirals", "farfalle"}) THEN "starch"
    ELSE IF AnyIn(name_lower, {"broccoli", "cauliflower", "carrot", "green bean",
                               "spinach", "cabbage", "vegetable", "bean sprout"})
         THEN "vegetable"
    ELSE IF AnyIn(name_lower, {"soup", "chili"}) THEN "soup"
    ELSE IF Contains(name_lower, "pizza") THEN "pizza"
    ELSE IF AnyIn(name_lower, {"burrito", "taco", "salsa"}) THEN "mexican"
    ELSE IF Contains(name_lower, "bean") /\ ~Contains(name_lower, "green") THEN "beans"
    ELSE IF Contains(name_lower, "salad") THEN "salad"
    ELSE IF AnyIn(name_lower, {"bread", "breadstick"}) THEN "bread"
    ELSE IF AnyIn(name_lower, {"cake", "pie", "cookie", "crisp", "quiche"}) THEN "dessert"
    ELSE IF AnyIn(name_lower, {"sauce", "marinara"}) THEN "sauce"
    ELSE IF Contains(name_lower, "roll") THEN "sushi"
    ELSE IF Contains(name_lower, "pad thai") THEN "pad_thai"
    ELSE IF "vegan" \in tg THEN "vegetable"
    ELSE "generic"

\* categorize_food with the pizza rule tested first
categorize_food_pizza_first(nm, tg) ==
    LET name_lower == Lower(nm) IN
    IF Contains(name_lower, "pizza") THEN "pizza"
    ELSE IF Contains(name_lower, "pad thai") THEN "pad_thai"
    ELSE IF AnyIn(name_lower, {"chicken", "salmon", "pork", "beef", "fish", "meat",
                               "calamari", "pepperoni"}) THEN "protein"
    ELSE IF AnyIn(name_lower, {"rice", "pasta", "spaghetti", "potato", "quinoa",
                               "tortilla", "spirals", "farfalle"}) THEN "starch"
    ELSE IF AnyIn(name_lower, {"broccoli", "cauliflower", "carrot", "green bean",
                               "spinach", "cabbage", "vegetable", "bean sprout"})
         THEN "vegetable"
    ELSE IF AnyIn(name_lower, {"soup", "chili"}) THEN "soup"
    ELSE IF AnyIn(name_lower, {"burrito", "taco", "salsa"}) THEN "mexican"
    ELSE IF Contains(name_lower, "bean") /\ ~Contains(name_lower, "green") THEN "beans"
    ELSE IF Contains(name_lower, "salad") THEN "salad"
    ELSE IF AnyIn(name_lower, {"bread", "breadstick"}) THEN "bread"
    ELSE IF AnyIn(name_lower, {"cake", "pie", "cookie", "crisp", "quiche"}) THEN "dessert"
    ELSE IF AnyIn(name_lower, {"sauce", "marinara"}) THEN "sauce"
    ELSE IF Contains(name_lower, "roll") THEN "sushi"
    ELSE IF Contains(name_lower, "pad thai") THEN "pad_thai"
    ELSE "generic"

categorize_food(nm, tg) ==
    LET name_lower == Lower(nm) IN
    IF Contains(name_lower, "pad thai") THEN "pad_thai"
    ELSE IF AnyIn(name_lower, {"chicken", "salmon", "pork", "beef", "fish", "meat",
                               "calamari", "pepperoni"}) THEN "protein"
    ELSE IF AnyIn(name_lower, {"rice", "pasta", "spaghetti", "potato", "quinoa",
                               "tortilla", "spirals", "farfalle"}) THEN "starch"
    ELSE IF AnyIn(name_lower, {"broccoli", "cauliflower", "carrot", "green bean",
                               "spinach", "cabbage", "vegetable", "bean sprout"})
         THEN "vegetable"
    ELSE IF AnyIn(name_lower, {"soup", "chili"}) THEN "soup"
    ELSE IF Contains(name_lower, "pizza") THEN "pizza"
    ELSE IF AnyIn(name_lower, {"burrito", "taco", "salsa"}) THEN "mexican"
    ELSE IF Contains(name_lower, "bean") /\ ~Contains(name_lower, "green") THEN "beans"
    ELSE IF Contains(name_lower, "salad") THEN "salad"
    ELSE IF AnyIn(name_lower, {"bread", "breadstick"}) THEN "bread"
    ELSE IF AnyIn(name_lower, {"cake", "pie", "cookie", "crisp", "quiche"}) THEN "dessert"
    ELSE IF AnyIn(name_lower, {"sauce", "marinara"}) THEN "sauce"
    ELSE IF Contains(name_lower, "roll") THEN "sushi"
    ELSE IF Contains(name_lower, "pad thai") THEN "pad_thai"
    ELSE "generic"

\* the return statement of categorize_food that ends the call, counted from the
\* top: 1 is the first "pad thai" test, 14 the second one, 15 the final return
ReturnSite(nm) ==
    LET name_lower == Lower(nm) IN
    IF Contains(name_lower, "pad thai") THEN 1
    ELSE IF AnyIn(name_lower, {"chicken", "salmon", "pork", "beef", "fish", "meat",
                               "calamari", "pepperoni"}) THEN 2
    ELSE IF AnyIn(name_lower, {"rice", "pasta", "spaghetti", "potato", "quinoa",
                               "tortilla", "spirals", "farfalle"}) THEN 3
    ELSE IF AnyIn(name_lower, {"broccoli", "cauliflower", "carrot", "green bean",
                               "spinach", "cabbage", "vegetable", "bean sprout"})
         THEN 4
    ELSE IF AnyIn(name_lower, {"soup", "chili"}) THEN 5
    ELSE IF Contains(name_lower, "pizza") THEN 6
    ELSE IF AnyIn(name_lower, {"burrito", "taco", "salsa"}) THEN 7
    ELSE IF Contains(name_lower, "bean") /\ ~Contains(name_lower, "green") THEN 8
    ELSE IF Contains(name_lower, "salad") THEN 9
    ELSE IF AnyIn(name_lower, {"bread", "breadstick"}) THEN 10
    ELSE IF AnyIn(name_lower, {"cake", "pie", "cookie", "crisp", "quiche"}) THEN 11
    ELSE IF AnyIn(name_lower, {"sauce", "marinara"}) THEN 12
    ELSE IF Contains(name_lower, "roll") THEN 13
    ELSE IF Contains(name_lower, "pad thai") THEN 14
    ELSE 15

(***************************************************************************)
(* estimate_nutrition                                                      *)
(***************************************************************************)

DAILY_VALUES ==
    [total_fat |-> 65, saturated_fat |-> 20, cholesterol |-> 300, sodium |-> 2400,
     total_carbs |-> 300, dietary_fiber |-> 25, vitamin_a |-> 5000, vitamin_c |-> 60,
     calcium |-> 1000, iron |-> 18]

\* calc_dv_percent with int() in the place of round()
calc_dv_percent_truncated(value, dv) == IntOf(Mul(Div(value, N(dv)), N(100)))

\* round((value / dv) * 100), stored
calc_dv_percent(value, dv) == RoundOf(Mul(Div(value, N(dv)), N(100)))

\* RunEstimator with estimators.get(food_category) and no default: calling None
\* raises TypeError
RunEstimator_nodefault(cat, nm, serving, tg) ==
    CASE cat = "protein" -> estimate_protein_nutrition(nm, serving, tg)
      [] cat = "starch" -> estimate_starch_nutrition(nm, serving, tg)
      [] cat = "vegetable" -> estimate_vegetable_nutrition(nm, serving, tg)
      [] cat = "soup" -> estimate_soup_nutrition(nm, serving, tg)
      [] cat = "pizza" -> estimate_pizza_nutrition(nm, serving, tg)
      [] cat = "mexican" -> estimate_mexican_nutrition(nm, serving, tg)
      [] cat = "beans" -> estimate_beans_nutrition(nm, serving, tg)
      [] cat = "salad" -> estimate_salad_nutrition(nm, serving, tg)
      [] cat = "bread" -> estimate_bread_nutrition(nm, serving, tg)
      [] cat = "dessert" -> estimate_dessert_nutrition(nm, serving, tg)
      [] cat = "sauce" -> estimate_sauce_nutrition(nm, serving, tg)
      [] cat = "sushi" -> estimate_sushi_nutrition(nm, serving, tg)
      [] cat = "pad_thai" -> estimate_pad_thai_nutrition(nm, serving, tg)
      [] OTHER -> Raised("TypeError")

\* estimators.get(food_category, estimate_vegetable_nutrition)(name, serving_size, tags)
RunEstimator(cat, nm, serving, tg) ==
    CASE cat = "protein" -> estimate_protein_nutrition(nm, serving, tg)
      [] cat = "starch" -> estimate_starch_nutrition(nm, serving, tg)
      [] cat = "vegetable" -> estimate_vegetable_nutrition(nm, serving, tg)
      [] cat = "soup" -> estimate_soup_nutrition(nm, serving, tg)
      [] cat = "pizza" -> estimate_pizza_nutrition(nm, serving, tg)
      [] cat = "mexican" -> estimate_mexican_nutrition(nm, serving, tg)
      [] cat = "beans" -> estimate_beans_nutrition(nm, serving, tg)
      [] cat = "salad" -> estimate_salad_nutrition(nm, serving, tg)
      [] cat = "bread" -> estimate_bread_nutrition(nm, serving, tg)
      [] cat = "dessert" -> estimate_dessert_nutrition(nm, serving, tg)
      [] cat = "sauce" -> estimate_sauce_nutrition(nm, serving, tg)
      [] cat = "sushi" -> estimate_sushi_nutrition(nm, serving, tg)
      [] cat = "pad_thai" -> estimate_pad_thai_nutrition(nm, serving, tg)
      [] OTHER -> estimate_vegetable_nutrition(nm, serving, tg)

\* the six daily value percentages
DailyValueStep(n) ==
    Store(n, << <<"total_fat_dv",
                  calc_dv_percent(Get(n, "total_fat_g"), DAILY_VALUES.total_fat)>>,
                <<"saturated_fat_dv",
                  calc_dv_percent(Get(n, "saturated_fat_g"), DAILY_VALUES.saturated_fat)>>,
                <<"cholesterol_dv",
                  calc_dv_percent(Get(n, "cholesterol_mg"), DAILY_VALUES.cholesterol)>>,
                <<"sodium_dv",
                  calc_dv_percent(Get(n, "sodium_mg"), DAILY_VALUES.sodium)>>,
                <<"total_carbs_dv",
                  calc_dv_percent(Get(n, "total_carbs_g"), DAILY_VALUES.total_carbs)>>,
                <<"dietary_fiber_dv",
                  calc_dv_percent(Get(n, "dietary_fiber_g"), DAILY_VALUES.dietary_fiber)>> >>)

\* nutr["calories_from_fat"] = int(nutr["total_fat_g"] * 9)
CaloriesFromFatStep(n) ==
    Put(n, "calories_from_fat", IntOf(Mul(Get(n, "total_fat_g"), N(9))))

IntegerKeys ==
    <<"calories", "calories_from_fat", "cholesterol_mg", "sodium_mg",
      "total_carbs_g", "sugars_g", "protein_g">>

DecimalKeys == <<"total_fat_g", "saturated_fat_g", "trans_fat_g", "dietary_fiber_g">>

\* IntegerStep with the coercion loop left out
IntegerStep_skipped(n) == n

\* for key in IntegerKeys: nutr[key] = int(nutr.get(key, 0))
IntegerStep(n) ==
    Store(n, [i \in 1..Len(IntegerKeys) |->
                 <<IntegerKeys[i], IntOf(GetOr0(n, IntegerKeys[i]))>>])

\* for key in DecimalKeys: nutr[key] = round(nutr.get(key, 0), 1)
DecimalStep(n) ==
    Store(n, [i \in 1..Len(DecimalKeys) |->
                 <<DecimalKeys[i], Round1Of(GetOr0(n, DecimalKeys[i]))>>])

\* the estimator's dict for the item, or the exception it raises
EstimatorResult(nm, serving, tg) == RunEstimator(categorize_food(nm, tg), nm, serving, tg)

\* lines 902-922 applied to the estimator's dict
Normalize(n) == DecimalStep(IntegerStep(CaloriesFromFatStep(DailyValueStep(n))))

estimate_nutrition(nm, serving, tg) ==
    LET returned(d) == IF d.exc # "none" THEN Raised(d.exc) ELSE Normalize(d)
    IN  returned(EstimatorResult(nm, serving, tg))

(***************************************************************************)
(* Inputs.                                                                 *)
(***************************************************************************)

\* the largest whole amount of the generated serving texts
MaxAmount == 3

RECURSIVE ToStr(_)
\* the decimal text of a natural number
ToStr(k) ==
    IF k < 10 THEN SubSeq(DigitChars, k + 1, k + 1)
    ELSE ToStr(k \div 10) \o SubSeq(DigitChars, (k % 10) + 1, (k % 10) + 1)

TagUniverse == {"vegan", "vegetarian", "contains_nuts"}

Names ==
    {"Pad Thai with Chicken", "Vegetable Pad Thai",
     "Roasted Chicken Quarter", "Grilled Chicken Breast", "Chicken Tenders",
     "Grilled Salmon", "Baked Salmon", "Pork Loin", "Fried Calamari",
     "Pepperoni Pizza", "Pasta with Meat Sauce", "Beef Stew", "Baked Fish",
     "Brown Rice", "Fried Rice", "Spanish Rice", "Rice Pilaf",
     "Whole Wheat Pasta", "Spaghetti Carbonara", "Pasta Primavera",
     "Garlic Farfalle", "Baked Potato", "Baked Sweet Potato", "Mashed Potatoes",
     "Potato Wedges", "Quinoa", "Flour Tortilla", "Corn Tortilla",
     "Wheat Tortilla",
     "Steamed Broccoli", "Cauliflower", "Glazed Carrots", "Green Bean Almondine",
     "Spinach Salad", "Cabbage", "Mixed Vegetables", "Carrot Cake",
     "Tomato Soup", "Cream of Mushroom Soup", "Leek Soup", "Vegetarian Chili",
     "Minestrone Soup",
     "Cheese Pizza", "Mushroom Wheat Pizza", "Pizza Bread",
     "Bean Burrito", "Breakfast Burrito", "Veggie Taco", "Salsa Fresca",
     "Black Beans", "Refried Beans", "Pinto Beans",
     "Caesar Salad", "Garden Salad",
     "Breadsticks", "Pesto Bread", "Garlic Bread",
     "Chocolate Cake", "Apple Pie", "Apple Crisp", "Quiche Lorraine",
     "Sugar Cookie",
     "Marinara Sauce", "Alfredo Sauce",
     "California Roll",
     "Assorted Condiments", "Bean and Green Pepper Dip", "CHICKEN PAD THAI",
     "Twice Baked Potatoes", "Oven Roasted Fried Chicken", "Fried Fish",
     "Chicken Pizza", "Vegetable Pizza", "Vegetable Burrito", "Potato Leek Soup"}

Servings ==
    {"", "1/2 cup", "3/4 Cup", "1 quarter", "2 slices", "10 oz", "6 pieces",
     "1 potato", "1 ladle", "0.1 oz", "2.5 oz", "-1 cup", ".", "1.2.3 oz"}
    \cup {ToStr(k) \o " oz" : k \in 0..MaxAmount}
    \cup {ToStr(k) \o " cup" : k \in 0..MaxAmount}

Pending == [exc |-> "pending"]

\* no call of process_menu_data has been made
MenuIdle ==
    /\ menu_data = <<>>
    /\ pc = "idle"
    /\ hall_idx = 0
    /\ meal_idx = 0
    /\ cat_idx = 0
    /\ item_idx = 0
    /\ result = <<>>
    /\ menu_exc = "none"
    /\ calls = 0
    /\ first_call = <<>>

\* the module has been imported and none of its functions called
ModuleLoaded ==
    /\ daily_values = DAILY_VALUES
    /\ allocated = 0
    /\ record_ids = <<>>

\* NewDict returning the one dict of a module-level template
NewDict_cached(n) == 1

\* the identity of the dict create_base_nutrition returns (a dict display
\* builds a new object) when n dicts have been built before
NewDict(n) == n + 1

(***************************************************************************)
(* One call of categorize_food or of estimate_nutrition on an item.        *)
(***************************************************************************)

Init ==
    /\ name \in Names
    /\ serving_size \in Servings
    /\ tags \in SUBSET TagUniverse
    /\ op = "none"
    /\ parsed = Pending
    /\ food_category = ""
    /\ draft = Pending
    /\ nutr = Pending
    /\ MenuIdle
    /\ ModuleLoaded

CategorizeFood ==
    /\ op = "none"
    /\ op' = "categorize_food"
    /\ food_category' = categorize_food(name, tags)
    /\ UNCHANGED <<name, serving_size, tags, parsed, draft, nutr>>
    /\ UNCHANGED <<menu_vars, module_vars>>

\* draft is the dict the estimator returned (line 900), nutr the dict returned
EstimateNutrition ==
    /\ op = "none"
    /\ op' = "estimate_nutrition"
    /\ LET returned(cat, d) ==
               /\ food_category' = cat
               /\ draft' = d
               /\ nutr' = IF d.exc # "none" THEN Raised(d.exc) ELSE Normalize(d)
               /\ record_ids' = IF d.exc # "none" THEN record_ids
                                ELSE Append(record_ids, NewDict(allocated))
       IN  returned(categorize_food(name, tags), EstimatorResult(name, serving_size, tags))
    /\ allocated' = allocated + 1
    /\ UNCHANGED <<name, serving_size, tags, parsed>>
    /\ UNCHANGED <<menu_vars, daily_values>>

Next == CategorizeFood \/ EstimateNutrition

Spec == Init /\ [][Next]_vars

(***************************************************************************)
(* One call of parse_serving_size on a serving text.                       *)
(***************************************************************************)

NumberTexts ==
    {"", "1/2", "1/3", "1/4", "2/3", "3/4", "0.5", ".5", "1.", "007",
     "1 1/2", "11/2", "-1", ".", "1.2.3", "1/3/4", "approx. 2"}
    \cup {ToStr(k) : k \in 0..MaxAmount}

UnitTexts ==
    {"", "cup", "oz", "ladle", "slices", "piece", "potato", "tortilla", "burrito",
     "taco", "quarter", "round", "ounce", "Ounces", "CUPS", "oz cup", "ounce ladle",
     "round taco", "potato slice", "quarter piece", "tortilla burrito",
     "serving", "each", "ladle (6 oz)"}

ServingTexts ==
    {n \o " " \o u : n \in NumberTexts, u \in UnitTexts}
    \cup {"  2 Cups\t", "1/2cup", "3oz"}

InitParse ==
    /\ name = ""
    /\ serving_size \in ServingTexts
    /\ tags = {}
    /\ op = "none"
    /\ parsed = Pending
    /\ food_category = ""
    /\ draft = Pending
    /\ nutr = Pending
    /\ MenuIdle
    /\ ModuleLoaded

ParseServingSize ==
    /\ op = "none"
    /\ op' = "parse_serving_size"
    /\ parsed' = parse_serving_size(serving_size)
    /\ UNCHANGED <<name, serving_size, tags, food_category, draft, nutr>>
    /\ UNCHANGED <<menu_vars, module_vars>>

NextParse == ParseServingSize

SpecParse == InitParse /\ [][NextParse]_vars

(***************************************************************************)
(* process_menu_data.  A dict that is iterated with .items() is a sequence *)
(* of [key, value] entries in insertion order; a dict that is only looked  *)
(* up is a record; a list of tags is the set of its elements.              *)
(***************************************************************************)

\* d.get(k, default)
DictGet(d, k, default) == IF k \in DOMAIN d THEN d[k] ELSE default

\* menu_data.get("dining_halls", {}), hall_data.get("meals", {}),
\* meal_data.get("categories", {}) and the list of a station category
Halls(md) == DictGet(md, "dining_halls", <<>>)
Meals(md, a) == DictGet(Halls(md)[a].value, "meals", <<>>)
Categories(md, a, b) == DictGet(Meals(md, a)[b].value, "categories", <<>>)
Items(md, a, b, k) == Categories(md, a, b)[k].value

\* the most items a list of the generated menus holds
MaxItems == 2

\* the most invocations of process_menu_data on one input
MaxCalls == 2

\* the values datetime.now().isoformat() may take
Instants == {"2026-11-05T12:00:00", "2026-11-05T12:00:01"}

ItemPool ==
    {[name |-> "Caesar Salad", serving_size |-> "1 cup",
      dietary_tags |-> {"contains_nuts"}],
     [name |-> "Mashed Potatoes", serving_size |-> "4 oz"],
     [name |-> "Mashed Potatoes", serving_size |-> "4 oz", dietary_tags |-> {}],
     [name |-> "Mashed Potatoes", serving_size |-> "",
      dietary_tags |-> {"vegetarian"}],
     [name |-> "Mashed Potatoes", dietary_tags |-> {"vegetarian"}],
     [name |-> "Tomato Soup", serving_size |-> ".", dietary_tags |-> {"vegan"}],
     [name |-> "Chocolate Cake", serving_size |-> "1 slice",
      dietary_tags |-> {"vegan"}]}

ItemLists == UNION {[1..k -> ItemPool] : k \in 0..MaxItems}

\* a menu of three halls: one with two station categories in one meal, one
\* without a "meals" key, one with a meal without a "categories" key
Menu(entrees, sides) ==
    [date |-> "2026-11-05",
     dining_halls |->
        << [key |-> "Carrillo",
            value |-> [meals |->
                << [key |-> "Lunch",
                    value |-> [categories |->
                        << [key |-> "Entrees", value |-> entrees],
                           [key |-> "Sides", value |-> sides] >>]] >>]],
           [key |-> "Portola", value |-> [status |-> "closed"]],
           [key |-> "Ortega",
            value |-> [meals |->
                << [key |-> "Brunch", value |-> [status |-> "no service"]],
                   [key |-> "Dinner",
                    value |-> [categories |->
                        << [key |-> "Desserts",
                            value |-> << [name |-> "Chocolate Cake",
                                          serving_size |-> "1 slice",
                                          dietary_tags |-> {"vegan"}] >>] >>]] >>]] >>]

Menus ==
    {Menu(entrees, sides) :
        entrees \in ItemLists,
        sides \in {<<>>, << [name |-> "Mashed Potatoes", serving_size |-> "4 oz"] >>}}

\* ItemTags with a default that is not the empty list
ItemTags_vegetarian(item) == DictGet(item, "dietary_tags", {"vegetarian"})

\* item.get("dietary_tags", [])
ItemTags(item) == DictGet(item, "dietary_tags", {})

\* ItemEntry with the manifest's timestamp copied into the entry
ItemEntry_stamped(hall_name, meal_name, category, item, nutrition) ==
    [dining_hall |-> hall_name, meal |-> meal_name, category |-> category,
     name |-> item.name, serving_size |-> item.serving_size,
     dietary_tags |-> ItemTags(item), nutrition_facts |-> nutrition,
     generated_at |-> result.generated_at]

\* the dict appended to result["items"]
ItemEntry(hall_name, meal_name, category, item, nutrition) ==
    [dining_hall |-> hall_name, meal |-> meal_name, category |-> category,
     name |-> item.name, serving_size |-> item.serving_size,
     dietary_tags |-> ItemTags(item), nutrition_facts |-> nutrition]

\* what evaluating estimate_nutrition(item["name"], item["serving_size"],
\* item.get("dietary_tags", []), category) gives: a missing key raises KeyError
ItemNutrition(item) ==
    IF "name" \notin DOMAIN item \/ "serving_size" \notin DOMAIN item
    THEN Raised("KeyError")
    ELSE estimate_nutrition(item.name, item.serving_size, ItemTags(item))

InitMenu ==
    /\ name = ""
    /\ serving_size = ""
    /\ tags = {}
    /\ op = "none"
    /\ parsed = Pending
    /\ food_category = ""
    /\ draft = Pending
    /\ nutr = Pending
    /\ menu_data \in Menus
    /\ pc = "idle"
    /\ hall_idx = 0
    /\ meal_idx = 0
    /\ cat_idx = 0
    /\ item_idx = 0
    /\ result = <<>>
    /\ menu_exc = "none"
    /\ calls = 0
    /\ first_call = <<>>
    /\ ModuleLoaded

\* a call: the manifest is created with an empty items list; a second call
\* starts when the first has returned or raised
ProcessMenuData ==
    /\ pc \in {"idle", "done", "raised"}
    /\ calls < MaxCalls
    /\ calls' = calls + 1
    /\ first_call' = IF calls = 1
                     THEN [pc |-> pc, exc |-> menu_exc, result |-> result]
                     ELSE first_call
    /\ \E now \in Instants :
          result' =
              [date |-> DictGet(menu_data, "date", "None"),
               generated_at |-> now,
               source |-> "Estimated based on typical institutional food preparation",
               daily_values_basis |-> "2000 calorie diet",
               items |-> <<>>]
    /\ pc' = "halls"
    /\ hall_idx' = 1
    /\ meal_idx' = 0
    /\ cat_idx' = 0
    /\ item_idx' = 0
    /\ menu_exc' = "none"
    /\ UNCHANGED <<menu_data, item_vars, module_vars>>

\* for hall_name, hall_data in menu_data.get("dining_halls", {}).items()
NextHall ==
    /\ pc = "halls"
    /\ hall_idx <= Len(Halls(menu_data))
    /\ pc' = "meals"
    /\ meal_idx' = 1
    /\ UNCHANGED <<menu_data, hall_idx, cat_idx, item_idx, result, menu_exc, calls,
                   first_call, item_vars, module_vars>>

\* return result
Return ==
    /\ pc = "halls"
    /\ hall_idx > Len(Halls(menu_data))
    /\ pc' = "done"
    /\ UNCHANGED <<menu_data, hall_idx, meal_idx, cat_idx, item_idx, result, menu_exc,
                   calls, first_call, item_vars, module_vars>>

\* for meal_name, meal_data in hall_data.get("meals", {}).items()
NextMeal ==
    /\ pc = "meals"
    /\ meal_idx <= Len(Meals(menu_data, hall_idx))
    /\ pc' = "categories"
    /\ cat_idx' = 1
    /\ UNCHANGED <<menu_data, hall_idx, meal_idx, item_idx, result, menu_exc, calls,
                   first_call, item_vars, module_vars>>

EndMeals ==
    /\ pc = "meals"
    /\ meal_idx > Len(Meals(menu_data, hall_idx))
    /\ pc' = "halls"
    /\ hall_idx' = hall_idx + 1
    /\ UNCHANGED <<menu_data, meal_idx, cat_idx, item_idx, result, menu_exc, calls,
                   first_call, item_vars, module_vars>>

\* for category, items in meal_data.get("categories", {}).items()
NextCategory ==
    /\ pc = "categories"
    /\ cat_idx <= Len(Categories(menu_data, hall_idx, meal_idx))
    /\ pc' = "items"
    /\ item_idx' = 1
    /\ UNCHANGED <<menu_data, hall_idx, meal_idx, cat_idx, result, menu_exc, calls,
                   first_call, item_vars, module_vars>>

EndCategories ==
    /\ pc = "categories"
    /\ cat_idx > Len(Categories(menu_data, hall_idx, meal_idx))
    /\ pc' = "meals"
    /\ meal_idx' = meal_idx + 1
    /\ UNCHANGED <<menu_data, hall_idx, cat_idx, item_idx, result, menu_exc, calls,
                   first_call, item_vars, module_vars>>

\* the body of for item in items: an exception leaves the call, otherwise the
\* entry is appended
ProcessItem ==
    /\ pc = "items"
    /\ item_idx <= Len(Items(menu_data, hall_idx, meal_idx, cat_idx))
    /\ LET body(item, nutrition) ==
               IF nutrition.exc # "none"
               THEN /\ pc' = "raised"
                    /\ menu_exc' = nutrition.exc
                    /\ UNCHANGED <<result, item_idx, record_ids>>
               ELSE /\ result' =
                          [result EXCEPT !.items =
                              Append(@, ItemEntry(
                                  Halls(menu_data)[hall_idx].key,
                                  Meals(menu_data, hall_idx)[meal_idx].key,
                                  Categories(menu_data, hall_idx, meal_idx)[cat_idx].key,
                                  item, nutrition))]
                    /\ item_idx' = item_idx + 1
                    /\ record_ids' = Append(record_ids, NewDict(allocated))
                    /\ UNCHANGED <<pc, menu_exc>>
       IN  body(Items(menu_data, hall_idx, meal_idx, cat_idx)[item_idx],
                ItemNutrition(Items(menu_data, hall_idx, meal_idx, cat_idx)[item_idx]))
    /\ allocated' =
          LET item == Items(menu_data, hall_idx, meal_idx, cat_idx)[item_idx]
          IN  IF "name" \in DOMAIN item /\ "serving_size" \in DOMAIN item
              THEN allocated + 1
              ELSE allocated
    /\ UNCHANGED <<menu_data, hall_idx, meal_idx, cat_idx, calls, first_call, item_vars,
                   daily_values>>

EndItems ==
    /\ pc = "items"
    /\ item_idx > Len(Items(menu_data, hall_idx, meal_idx, cat_idx))
    /\ pc' = "categories"
    /\ cat_idx' = cat_idx + 1
    /\ UNCHANGED <<menu_data, hall_idx, meal_idx, item_idx, result, menu_exc, calls,
                   first_call, item_vars, module_vars>>

NextMenu ==
    \/ ProcessMenuData
    \/ NextHall
    \/ Return
    \/ NextMeal
    \/ EndMeals
    \/ NextCategory
    \/ EndCategories
    \/ ProcessItem
    \/ EndItems

SpecMenu == InitMenu /\ [][NextMenu]_vars

(***************************************************************************)
(* Properties of the record estimate_nutrition returns.  Emitted says that *)
(* the call has returned a record (the estimator did not raise).           *)
(***************************************************************************)

\* C1: in the emitted record each of the six _dv fields equals
\* round(v / reference * 100) of the paired nutrient value v of the same
\* record, with references 65, 20, 300, 2400, 300 and 25
C1_DailyValuesOfEmitted ==
    (op = "estimate_nutrition" /\ nutr.exc = "none") =>
        /\ nutr.v["total_fat_dv"] = 100 * PyRound(<<nutr.v["total_fat_g"] * 100, 100 * 65>>)
        /\ nutr.v["saturated_fat_dv"] =
               100 * PyRound(<<nutr.v["saturated_fat_g"] * 100, 100 * 20>>)
        /\ nutr.v["cholesterol_dv"] =
               100 * PyRound(<<nutr.v["cholesterol_mg"] * 100, 100 * 300>>)
        /\ nutr.v["sodium_dv"] = 100 * PyRound(<<nutr.v["sodium_mg"] * 100, 100 * 2400>>)
        /\ nutr.v["total_carbs_dv"] =
               100 * PyRound(<<nutr.v["total_carbs_g"] * 100, 100 * 300>>)
        /\ nutr.v["dietary_fiber_dv"] =
               100 * PyRound(<<nutr.v["dietary_fiber_g"] * 100, 100 * 25>>)

\* a record in which all six percentages are positive
C1_Witness ==
    /\ op = "estimate_nutrition"
    /\ nutr.exc = "none"
    /\ \A k \in {"total_fat_dv", "saturated_fat_dv", "cholesterol_dv", "sodium_dv",
                 "total_carbs_dv", "dietary_fiber_dv"} : nutr.v[k] > 0

\* C2: the emitted calories_from_fat equals round(total_fat_g * 9) of the
\* total_fat_g of the same record, rounded to the nearest whole number
C2_CaloriesFromFatRounded ==
    (op = "estimate_nutrition" /\ nutr.exc = "none") =>
        nutr.v["calories_from_fat"] = 100 * PyRound(<<nutr.v["total_fat_g"] * 9, 100>>)

\* C3 as stated: the returned record contains every one of the 21 fields, and
\* every field the chosen estimator never assigned has the value 0 in it
C3_UnassignedFieldsAreZero ==
    (op = "estimate_nutrition" /\ nutr.exc = "none") =>
        /\ Fields \subseteq DOMAIN nutr.v
        /\ \A f \in Fields \ draft.w : nutr.v[f] = 0

\* C3: the returned record contains every one of the 21 fields; a field the
\* chosen estimator never assigned is 0 in the estimator's record, and is 0 in
\* the returned record as well unless it is one of the seven fields that
\* estimate_nutrition computes afterwards (the six _dv percentages and
\* calories_from_fat), which is 0 when its paired nutrient was never assigned
C3_UnassignedFieldsDefault ==
    (op = "estimate_nutrition" /\ nutr.exc = "none") =>
        LET paired == [total_fat_dv |-> "total_fat_g",
                       saturated_fat_dv |-> "saturated_fat_g",
                       cholesterol_dv |-> "cholesterol_mg",
                       sodium_dv |-> "sodium_mg",
                       total_carbs_dv |-> "total_carbs_g",
                       dietary_fiber_dv |-> "dietary_fiber_g",
                       calories_from_fat |-> "total_fat_g"]
        IN  /\ Fields \subseteq DOMAIN draft.v
            /\ Fields \subseteq DOMAIN nutr.v
            /\ \A f \in Fields \ draft.w :
                  /\ draft.v[f] = 0
                  /\ f \notin DOMAIN paired => nutr.v[f] = 0
                  /\ (f \in DOMAIN paired /\ paired[f] \notin draft.w) => nutr.v[f] = 0

\* a record whose estimator assigned calories but neither iron_dv, nor
\* cholesterol_mg, nor sodium_mg
C3_Witness ==
    /\ op = "estimate_nutrition"
    /\ nutr.exc = "none"
    /\ "calories" \in draft.w
    /\ {"iron_dv", "cholesterol_mg", "sodium_mg"} \cap draft.w = {}
    /\ nutr.v["iron_dv"] = 0
    /\ nutr.v["cholesterol_dv"] = 0
    /\ nutr.v["total_carbs_dv"] > 0

\* C4: the key set of the emitted record is exactly the 21 field names
C4_ExactlyTheFields ==
    (op = "estimate_nutrition" /\ nutr.exc = "none") => DOMAIN nutr.v = Fields

\* C5: in the emitted record calories, calories_from_fat, cholesterol_mg,
\* sodium_mg, total_carbs_g, sugars_g and protein_g are whole numbers, and
\* total_fat_g, saturated_fat_g, trans_fat_g and dietary_fiber_g are multiples
\* of 0.1
C5_WholeAndOneDecimal ==
    (op = "estimate_nutrition" /\ nutr.exc = "none") =>
        /\ \A k \in {"calories", "calories_from_fat", "cholesterol_mg", "sodium_mg",
                     "total_carbs_g", "sugars_g", "protein_g"} : nutr.v[k] % 100 = 0
        /\ \A k \in {"total_fat_g", "saturated_fat_g", "trans_fat_g",
                     "dietary_fiber_g"} : nutr.v[k] % 10 = 0

\* a record whose estimator left a fraction in a whole-number field, and with a
\* decimal in a one-decimal field
C5_Witness ==
    /\ op = "estimate_nutrition"
    /\ nutr.exc = "none"
    /\ \E k \in {"calories", "cholesterol_mg", "sodium_mg", "total_carbs_g",
                 "sugars_g", "protein_g"} : draft.v[k] % 100 # 0
    /\ \E k \in {"total_fat_g", "saturated_fat_g", "trans_fat_g",
                 "dietary_fiber_g"} : nutr.v[k] % 100 # 0

\* C6: when the parser returns, every gram and milligram field of the emitted
\* record is greater than or equal to 0
C6_NonNegativeMass ==
    (op = "estimate_nutrition" /\ nutr.exc = "none") =>
        \A k \in {"total_fat_g", "saturated_fat_g", "trans_fat_g", "cholesterol_mg",
                  "sodium_mg", "total_carbs_g", "dietary_fiber_g", "sugars_g",
                  "protein_g"} : nutr.v[k] >= 0

\* a record scaled by the amount parsed from a serving text with a minus sign
C6_Witness ==
    /\ op = "estimate_nutrition"
    /\ nutr.exc = "none"
    /\ serving_size = "-1 cup"
    /\ food_category = "beans"
    /\ nutr.v["protein_g"] > 0
    /\ nutr.v["sodium_mg"] > 0

(***************************************************************************)
(* Properties of parse_serving_size, under SpecParse.                      *)
(***************************************************************************)

\* C7: parse_serving_size never fails: for every input string, also one whose
\* first run of digits and dots is not a number, it returns a pair
C7_ParseNeverFails ==
    op = "parse_serving_size" => parsed.exc = "none"

\* C8: whenever parse_serving_size returns, amount is a non-negative number
\* and unit is one of cup, oz, slice, piece, potato, tortilla, burrito, taco,
\* quarter, round, serving
C8_AmountAndUnitRange ==
    (op = "parse_serving_size" /\ parsed.exc = "none") =>
        /\ parsed.amount[2] > 0
        /\ parsed.amount[1] >= 0
        /\ parsed.unit \in {"cup", "oz", "slice", "piece", "potato", "tortilla",
                            "burrito", "taco", "quarter", "round", "serving"}

\* a text with a minus sign and the ladle keyword, parsed to a positive
\* amount of oz
C8_Witness ==
    /\ op = "parse_serving_size"
    /\ parsed.exc = "none"
    /\ Contains(serving_size, "-")
    /\ Contains(serving_size, "ladle")
    /\ parsed.amount[1] > 0
    /\ parsed.unit = "oz"

\* C9: parse_serving_size returns as amount the value of the first numeric
\* token of the lower-cased, trimmed text after the fraction tokens have been
\* replaced by their decimals, and 1.0 when the text has no numeric token (no
\* digit); "1/2 cup" gives 0.5, "3 oz" gives 3.0 and "2 slices" gives 2.0
C9_AmountIsFirstNumber ==
    op = "parse_serving_size" =>
        LET s == ReplaceFractions(Strip(Lower(serving_size)), 1)
            digits == {i \in 1..Len(s) : IsDigit(SubSeq(s, i, i))}
        IN  /\ parsed.exc = "none"
            /\ digits = {} => QEq(parsed.amount, <<1, 1>>)
            /\ digits # {} => QEq(parsed.amount, PyFloat(NumericToken(s)))
            /\ serving_size = "1/2 cup" => QEq(parsed.amount, <<5, 10>>)
            /\ serving_size = "3 oz" => QEq(parsed.amount, <<3, 1>>)
            /\ serving_size = "2 slices" => QEq(parsed.amount, <<2, 1>>)

\* C10: unit is the first keyword, in the order cup, oz, ladle, slice, piece,
\* potato, tortilla, burrito, taco, quarter, round, ounce, that the lower-cased
\* text contains, with ladle and ounce mapped to oz; it is serving when none
\* is contained, and a text with neither a numeric token nor a keyword parses
\* to (1.0, "serving")
C10_UnitByPriority ==
    op = "parse_serving_size" =>
        LET s == Lower(serving_size)
            kw == <<"cup", "oz", "ladle", "slice", "piece", "potato", "tortilla",
                    "burrito", "taco", "quarter", "round", "ounce">>
            hits == {i \in 1..Len(kw) : Contains(s, kw[i])}
            first == CHOOSE i \in hits : \A j \in hits : i <= j
            digits == {i \in 1..Len(s) : IsDigit(SubSeq(s, i, i))}
        IN  /\ parsed.exc = "none"
            /\ hits = {} => parsed.unit = "serving"
            /\ hits # {} =>
                  parsed.unit = (IF kw[first] \in {"ladle", "ounce"} THEN "oz" ELSE kw[first])
            /\ (hits = {} /\ digits = {}) =>
                  (QEq(parsed.amount, <<1, 1>>) /\ parsed.unit = "serving")

(***************************************************************************)
(* Properties of categorize_food and of the estimator it selects.          *)
(***************************************************************************)

\* C11: categorize_food returns the category of the first rule, in the order
\* pad_thai, protein, starch, vegetable, soup, pizza, mexican, beans (bean but
\* not green), salad, bread, dessert, sauce, sushi, generic, whose keyword
\* condition holds on the lower-cased name: the result of an ordered list of
\* (predicate, category) pairs evaluated in sequence
C11_FirstMatchingRule ==
    op \in {"categorize_food", "estimate_nutrition"} =>
        LET n == Lower(name)
            has(kws) == \E k \in kws : Contains(n, k)
            rules ==
                << <<has({"pad thai"}), "pad_thai">>,
                   <<has({"chicken", "salmon", "pork", "beef", "fish", "meat",
                          "calamari", "pepperoni"}), "protein">>,
                   <<has({"rice", "pasta", "spaghetti", "potato", "quinoa", "tortilla",
                          "spirals", "farfalle"}), "starch">>,
                   <<has({"broccoli", "cauliflower", "carrot", "green bean", "spinach",
                          "cabbage", "vegetable", "bean sprout"}), "vegetable">>,
                   <<has({"soup", "chili"}), "soup">>,
                   <<has({"pizza"}), "pizza">>,
                   <<has({"burrito", "taco", "salsa"}), "mexican">>,
                   <<has({"bean"}) /\ ~has({"green"}), "beans">>,
                   <<has({"salad"}), "salad">>,
                   <<has({"bread", "breadstick"}), "bread">>,
                   <<has({"cake", "pie", "cookie", "crisp", "quiche"}), "dessert">>,
                   <<has({"sauce", "marinara"}), "sauce">>,
                   <<has({"roll"}), "sushi">>,
                   <<TRUE, "generic">> >>
            first == CHOOSE i \in 1..Len(rules) :
                        rules[i][1] /\ \A j \in 1..(i - 1) : ~rules[j][1]
        IN  food_category = rules[first][2]

\* a name with bean and green that only the fallback rule accepts
C11_Witness ==
    /\ op = "categorize_food"
    /\ Contains(Lower(name), "bean")
    /\ Contains(Lower(name), "green")
    /\ food_category = "generic"

\* C12: every name that contains "pad thai", in any letter case, is
\* categorised pad_thai whatever other keywords it contains; "Pad Thai with
\* Chicken" is pad_thai and not protein
C12_PadThaiFirst ==
    op \in {"categorize_food", "estimate_nutrition"} =>
        /\ Contains(Lower(name), "pad thai") => food_category = "pad_thai"
        /\ name = "Pad Thai with Chicken" => food_category # "protein"

\* an upper-case pad thai name with a protein keyword
C12_Witness ==
    /\ op = "categorize_food"
    /\ ~Contains(name, "pad thai")
    /\ Contains(Lower(name), "pad thai")
    /\ Contains(Lower(name), "chicken")
    /\ food_category = "pad_thai"

\* C13: categorize_food returns exactly one of the 14 labels, and calls with
\* the same name and different tag lists return the same label
C13_LabelOfNameAlone ==
    op \in {"categorize_food", "estimate_nutrition"} =>
        /\ food_category \in {"pad_thai", "protein", "starch", "vegetable", "soup",
                              "pizza", "mexican", "beans", "salad", "bread", "dessert",
                              "sauce", "sushi", "generic"}
        /\ \A other \in SUBSET TagUniverse : categorize_food(name, other) = food_category

\* a call with all three tags on a name no rule accepts
C13_Witness ==
    /\ op = "categorize_food"
    /\ tags = TagUniverse
    /\ name = "Assorted Condiments"
    /\ food_category = "generic"

\* C14: for a name that matches none of the category rules 1 to 13,
\* categorize_food returns generic, and estimate_nutrition returns, for every
\* serving text and tag set, what the vegetable estimator followed by the
\* normalisation steps returns for that name, serving and tags
C14_GenericIsVegetable ==
    LET n == Lower(name)
        has(kws) == \E k \in kws : Contains(n, k)
        unmatched ==
            /\ ~has({"pad thai", "chicken", "salmon", "pork", "beef", "fish", "meat",
                     "calamari", "pepperoni", "rice", "pasta", "spaghetti", "potato",
                     "quinoa", "tortilla", "spirals", "farfalle", "broccoli",
                     "cauliflower", "carrot", "green bean", "spinach", "cabbage",
                     "vegetable", "bean sprout", "soup", "chili", "pizza", "burrito",
                     "taco", "salsa", "salad", "bread", "breadstick", "cake", "pie",
                     "cookie", "crisp", "quiche", "sauce", "marinara", "roll"})
            /\ ~(has({"bean"}) /\ ~has({"green"}))
        veg == estimate_vegetable_nutrition(name, serving_size, tags)
    IN  /\ (op = "categorize_food" /\ unmatched) => food_category = "generic"
        /\ (op = "estimate_nutrition" /\ unmatched) =>
              /\ food_category = "generic"
              /\ draft = veg
              /\ nutr = (IF veg.exc # "none" THEN Raised(veg.exc) ELSE Normalize(veg))

\* a record for a generic name with the vegetable estimator's default
\* profile: 25 kcal per half cup plus 18 kcal of added fat
C14_Witness ==
    /\ op = "estimate_nutrition"
    /\ name = "Assorted Condiments"
    /\ serving_size = "1 cup"
    /\ tags = {}
    /\ food_category = "generic"
    /\ nutr.exc = "none"
    /\ nutr.v["calories"] = 100 * 68
    /\ nutr.v["sodium_mg"] = 100 * 150

\* C15: for every item categorised dessert whose tags include vegan, the
\* emitted cholesterol_mg is 0
C15_VeganDessertNoCholesterol ==
    (op = "estimate_nutrition" /\ nutr.exc = "none" /\ food_category = "dessert"
        /\ "vegan" \in tags) => nutr.v["cholesterol_mg"] = 0

\* C16: for every item, the record estimated with contains_nuts has strictly
\* higher calories, total_fat_g and protein_g than the record estimated for the
\* same name, serving size and other tags without contains_nuts
C16_NutsRaiseEveryItem ==
    (op = "estimate_nutrition" /\ nutr.exc = "none" /\ "contains_nuts" \in tags) =>
        LET without == estimate_nutrition(name, serving_size, tags \ {"contains_nuts"})
        IN  /\ without.exc = "none"
            /\ nutr.v["calories"] > without.v["calories"]
            /\ nutr.v["total_fat_g"] > without.v["total_fat_g"]
            /\ nutr.v["protein_g"] > without.v["protein_g"]

(***************************************************************************)
(* Properties of process_menu_data, under SpecMenu.  While pc = "items"    *)
(* and item_idx > 1, the item before the cursor has been processed and the *)
(* last entry of result.items is the one appended for it; when             *)
(* pc = "raised" the cursor is on the item whose processing raised.        *)
(***************************************************************************)

\* C17: when an item lacks the serving_size field, process_menu_data does not
\* raise at it, and it emits for it the nutrition_facts of the same item with
\* serving_size ""; the other items are still emitted
C17_MissingServingSizeIsEmpty ==
    /\ (pc = "raised" /\ item_idx >= 1) =>
          "serving_size" \in DOMAIN Items(menu_data, hall_idx, meal_idx, cat_idx)[item_idx]
    /\ (pc = "items" /\ item_idx > 1) =>
          LET item == Items(menu_data, hall_idx, meal_idx, cat_idx)[item_idx - 1]
              entry == result.items[Len(result.items)]
          IN  "serving_size" \notin DOMAIN item =>
                  entry.nutrition_facts = estimate_nutrition(item.name, "", ItemTags(item))

\* C18: process_menu_data emits the same nutrition_facts when the dietary_tags
\* field is absent as when it is the empty list, and in both cases no vegan,
\* vegetarian or contains_nuts adjustment is applied
C18_AbsentTagsAreNoTags ==
    (pc = "items" /\ item_idx > 1) =>
        LET item == Items(menu_data, hall_idx, meal_idx, cat_idx)[item_idx - 1]
            entry == result.items[Len(result.items)]
        IN  ("dietary_tags" \notin DOMAIN item \/ item.dietary_tags = {}) =>
                /\ entry.name = item.name
                /\ entry.dietary_tags = {}
                /\ entry.nutrition_facts =
                       estimate_nutrition(item.name, item.serving_size, {})

\* mashed potatoes without a dietary_tags field have been emitted with the
\* 120 kcal of 4 oz and without the vegetarian supplement
C18_Witness ==
    /\ pc = "items"
    /\ item_idx > 1
    /\ "dietary_tags" \notin
          DOMAIN Items(menu_data, hall_idx, meal_idx, cat_idx)[item_idx - 1]
    /\ result.items[Len(result.items)].name = "Mashed Potatoes"
    /\ result.items[Len(result.items)].nutrition_facts.v["calories"] = 100 * 120

\* C19: a second invocation of process_menu_data on the same input ends as
\* the first did, with an identical items sequence (same length, order and
\* field values); only generated_at may differ
C19_SameItemsOnSecondCall ==
    (calls = 2 /\ pc \in {"done", "raised"}) =>
        /\ first_call.pc = pc
        /\ first_call.exc = menu_exc
        /\ pc = "done" =>
              /\ Len(result.items) = Len(first_call.result.items)
              /\ \A k \in 1..Len(result.items) :
                    result.items[k] = first_call.result.items[k]
              /\ \A f \in DOMAIN result \ {"generated_at"} :
                    result[f] = first_call.result[f]

\* two returned calls at different instants with three or more items
C19_Witness ==
    /\ calls = 2
    /\ pc = "done"
    /\ first_call.pc = "done"
    /\ result.generated_at # first_call.result.generated_at
    /\ Len(result.items) >= 3

\* C20: process_menu_data terminates on every input with an items sequence
\* that has exactly one entry per leaf item, in the traversal order halls,
\* meals, station categories, items; the k-th entry carries the hall, meal,
\* station category, name, serving_size and dietary_tags of the k-th leaf and
\* estimate_nutrition's record for it
C20_OneEntryPerLeafInOrder ==
    pc \in {"done", "raised"} =>
        LET halls == Halls(menu_data)
            leaves ==
                UNION {UNION {UNION {
                    {<<a, b, k, n>> : n \in 1..Len(Items(menu_data, a, b, k))} :
                        k \in 1..Len(Categories(menu_data, a, b))} :
                            b \in 1..Len(Meals(menu_data, a))} :
                                a \in 1..Len(halls)}
            before(q, p) ==
                \E j \in 1..4 : q[j] < p[j] /\ \A l \in 1..(j - 1) : q[l] = p[l]
            rank(p) == 1 + Cardinality({q \in leaves : before(q, p)})
        IN  /\ pc = "done"
            /\ Len(result.items) = Cardinality(leaves)
            /\ \A p \in leaves :
                  LET item == Items(menu_data, p[1], p[2], p[3])[p[4]]
                      entry == result.items[rank(p)]
                  IN  /\ entry.dining_hall = halls[p[1]].key
                      /\ entry.meal = Meals(menu_data, p[1])[p[2]].key
                      /\ entry.category = Categories(menu_data, p[1], p[2])[p[3]].key
                      /\ entry.name = item.name
                      /\ entry.serving_size = item.serving_size
                      /\ entry.dietary_tags = DictGet(item, "dietary_tags", {})
                      /\ entry.nutrition_facts =
                             estimate_nutrition(item.name, item.serving_size,
                                                DictGet(item, "dietary_tags", {}))

(***************************************************************************)
(* Frame properties of the engine, under SpecMenu: a call of               *)
(* process_menu_data calls estimate_nutrition, and through it              *)
(* categorize_food and parse_serving_size, once per item.                  *)
(***************************************************************************)

\* C21: no operation changes shared or input state: after any sequence of
\* calls the DAILY_VALUES table has its initial contents, no step changes the
\* input menu structure, and the record returned for one item is a fresh
\* record, not shared with the record of any other item of any call
C21_NoSharedStateChanged ==
    /\ [](daily_values = DAILY_VALUES)
    /\ [][menu_data' = menu_data]_vars
    /\ [](\A i, j \in 1..Len(record_ids) : i # j => record_ids[i] # record_ids[j])

\* a second call has returned, and the two calls returned four records or more
C21_Witness ==
    /\ calls = 2
    /\ pc = "done"
    /\ first_call.pc = "done"
    /\ Len(record_ids) >= 4
    /\ Len(record_ids) = Len(result.items) + Len(first_call.result.items)
    /\ daily_values["sodium"] = 2400

(***************************************************************************)
(* Properties of the estimators, under Spec.                               *)
(***************************************************************************)

\* C22: for every item tagged vegan, in every category, the emitted
\* cholesterol_mg is 0
C22_VeganNoCholesterol ==
    (op = "estimate_nutrition" /\ nutr.exc = "none" /\ "vegan" \in tags) =>
        nutr.v["cholesterol_mg"] = 0

\* C23: for every item categorised pizza, mexican, bread or dessert the
\* emitted record does not depend on the serving-size text: the same name and
\* tags with any other serving_size get identical nutrition_facts
C23_FlatCategoriesIgnoreServing ==
    (op = "estimate_nutrition"
        /\ food_category \in {"pizza", "mexican", "bread", "dessert"}) =>
        /\ nutr.exc = "none"
        /\ \A s \in Servings : estimate_nutrition(name, s, tags) = nutr

\* a dessert estimated at a serving text of three units; the same record is
\* given for one unit and for a text that parse_serving_size rejects
C23_Witness ==
    /\ op = "estimate_nutrition"
    /\ food_category = "dessert"
    /\ serving_size = "3 oz"
    /\ nutr.exc = "none"
    /\ nutr.v["calories"] = 100 * 380
    /\ parse_serving_size(".").exc = "ValueError"
    /\ estimate_nutrition(name, ".", tags) = nutr

\* C24: for every item categorised starch whose name contains "potato" and
\* "baked" and none of rice, pasta, spaghetti, spirals, farfalle, sweet and
\* mashed, the emitted calories is 160 for every serving-size text and every
\* tag set
C24_BakedPotatoFlat ==
    (op = "estimate_nutrition" /\ nutr.exc = "none" /\ food_category = "starch"
        /\ Contains(Lower(name), "potato") /\ Contains(Lower(name), "baked")
        /\ ~AnyIn(Lower(name), {"rice", "pasta", "spaghetti", "spirals", "farfalle",
                                "sweet", "mashed"})) =>
        nutr.v["calories"] = 100 * 160

\* a baked potato estimated at three cups with the vegetarian tag
C24_Witness ==
    /\ op = "estimate_nutrition"
    /\ name = "Twice Baked Potatoes"
    /\ food_category = "starch"
    /\ serving_size = "3 cup"
    /\ "vegetarian" \in tags
    /\ nutr.exc = "none"
    /\ nutr.v["calories"] = 100 * 160

\* C25: in the protein estimator the cooking-method adjustment is applied
\* after the variety branch has set fat f and calories c: a name containing
\* "baked" or "roast" gets total fat round(0.9 * f, 1) and calories c;
\* otherwise a name containing "fried" or "grilled" gets total fat
\* round(1.1 * f, 1) and calories int(1.05 * c); otherwise both are unchanged.
\* A name with a token of each kind gets only the reduction
C25_CookingMethodAfterVariety ==
    (op = "estimate_nutrition" /\ food_category = "protein" /\ draft.exc = "none") =>
        LET adjusted(f, c, reduced, raised) ==
                /\ reduced =>
                      /\ draft.v["total_fat_g"] = Round1Of(Mul(f, Q(9, 10)))
                      /\ Get(draft, "calories") = c
                /\ (~reduced /\ raised) =>
                      /\ draft.v["total_fat_g"] = Round1Of(Mul(f, Q(11, 10)))
                      /\ draft.v["calories"] = IntOf(Mul(c, Q(105, 100)))
                /\ (~reduced /\ ~raised) =>
                      /\ Get(draft, "total_fat_g") = f
                      /\ Get(draft, "calories") = c
            variety(n1) ==
                adjusted(Get(n1, "total_fat_g"), Get(n1, "calories"),
                         AnyIn(Lower(name), {"baked", "roast"}),
                         AnyIn(Lower(name), {"fried", "grilled"}))
            parsedAs(p) == variety(ProteinVariety(Lower(name), p.amount, p.unit))
        IN  parsedAs(parse_serving_size(serving_size))

\* two ounces of a chicken that is both roasted and fried: 5.0 g of fat reduced
\* to 4.5 g, calories left at 100
C25_Witness ==
    /\ op = "estimate_nutrition"
    /\ name = "Oven Roasted Fried Chicken"
    /\ serving_size = "2 oz"
    /\ food_category = "protein"
    /\ draft.exc = "none"
    /\ draft.v["total_fat_g"] = 450
    /\ draft.v["calories"] = 100 * 100
    /\ nutr.v["calories"] = 100 * 100

\* C26: for every pad_thai item without the contains_nuts tag, with
\* multiplier m = amount / 10 when the parsed unit is oz, m = amount when it
\* is cup and m = 1 otherwise: without "chicken" in the name calories is
\* int(380 * m) and cholesterol_mg is 0; with it calories is int(450 * m) and
\* cholesterol_mg is int(65 * m), or 0 when the item is tagged vegan.  At a
\* "10 oz" serving this gives 380 kcal and 450 kcal
C26_PadThaiByMultiplier ==
    (op = "estimate_nutrition" /\ food_category = "pad_thai" /\ nutr.exc = "none"
        /\ "contains_nuts" \notin tags) =>
        LET chicken == Contains(Lower(name), "chicken")
            scaled(m) ==
                /\ nutr.v["calories"] =
                       IF chicken THEN IntOf(Mul(N(450), m)) ELSE IntOf(Mul(N(380), m))
                /\ nutr.v["cholesterol_mg"] =
                       IF chicken /\ "vegan" \notin tags THEN IntOf(Mul(N(65), m)) ELSE 0
            parsedAs(p) ==
                scaled(IF p.unit = "oz" THEN Div(p.amount, N(10))
                       ELSE IF p.unit = "cup" THEN p.amount
                       ELSE N(1))
        IN  /\ parsedAs(parse_serving_size(serving_size))
            /\ serving_size = "10 oz" =>
                  nutr.v["calories"] = IF chicken THEN 100 * 450 ELSE 100 * 380

\* chicken pad thai at two cups: 900 kcal and 130 mg of cholesterol
C26_Witness ==
    /\ op = "estimate_nutrition"
    /\ food_category = "pad_thai"
    /\ Contains(Lower(name), "chicken")
    /\ serving_size = "2 cup"
    /\ tags = {}
    /\ nutr.exc = "none"
    /\ nutr.v["calories"] = 100 * 900
    /\ nutr.v["cholesterol_mg"] = 100 * 130

\* C27: for every beans item whose name contains "black", with cups the
\* parsed amount when the parsed unit is cup and 0.5 for every other unit,
\* the emitted calories is int(115 * cups * 2) and dietary_fiber_g is
\* 7.5 * cups * 2 rounded to one decimal; so two serving texts whose unit is
\* not cup give identical records
C27_BlackBeansByCups ==
    (op = "estimate_nutrition" /\ food_category = "beans" /\ nutr.exc = "none"
        /\ Contains(Lower(name), "black")) =>
        LET scaled(cups) ==
                /\ nutr.v["calories"] = IntOf(Mul(Mul(N(115), cups), N(2)))
                /\ nutr.v["dietary_fiber_g"] =
                       Round1Of(Mul(Mul(Q(75, 10), cups), N(2)))
            parsedAs(p) ==
                /\ scaled(IF p.unit = "cup" THEN p.amount ELSE Q(5, 10))
                /\ p.unit # "cup" =>
                      \A s \in Servings :
                          (parse_serving_size(s).exc = "none"
                              /\ parse_serving_size(s).unit # "cup") =>
                              estimate_nutrition(name, s, tags) = nutr
        IN  parsedAs(parse_serving_size(serving_size))

\* black beans at three ounces, estimated as the half cup: 115 kcal, 7.5 g of
\* fiber; three cups give 690 kcal
C27_Witness ==
    /\ op = "estimate_nutrition"
    /\ food_category = "beans"
    /\ name = "Black Beans"
    /\ serving_size = "3 oz"
    /\ nutr.exc = "none"
    /\ nutr.v["calories"] = 100 * 115
    /\ nutr.v["dietary_fiber_g"] = 750
    /\ estimate_nutrition(name, "3 cup", tags).v["calories"] = 100 * 690

\* C28 as stated: for every starch item that reaches the mashed-potato branch
\* (name contains "potato" and "mashed" and none of rice, pasta, spaghetti,
\* spirals, farfalle), for every serving-size text, the record estimated with
\* the vegetarian tag has strictly higher calories and strictly higher
\* total_fat_g than the record for the same name and serving without the tag
C28_VegetarianMashedHigher ==
    (op = "estimate_nutrition" /\ nutr.exc = "none" /\ food_category = "starch"
        /\ Contains(Lower(name), "potato") /\ Contains(Lower(name), "mashed")
        /\ ~AnyIn(Lower(name), {"rice", "pasta", "spaghetti", "spirals", "farfalle"})
        /\ "vegetarian" \in tags) =>
        LET higher(without) ==
                /\ without.exc = "none"
                /\ nutr.v["calories"] > without.v["calories"]
                /\ nutr.v["total_fat_g"] > without.v["total_fat_g"]
        IN  higher(estimate_nutrition(name, serving_size, tags \ {"vegetarian"}))

\* C28 amended: with the vegetarian tag calories is 15 higher and total_fat_g
\* is the untagged total_fat_g times 1.2 rounded to one decimal, which is
\* never lower and is strictly higher whenever the untagged total_fat_g is
\* 0.3 g or more
C28_VegetarianMashedRounded ==
    (op = "estimate_nutrition" /\ nutr.exc = "none" /\ food_category = "starch"
        /\ Contains(Lower(name), "potato") /\ Contains(Lower(name), "mashed")
        /\ ~AnyIn(Lower(name), {"rice", "pasta", "spaghetti", "spirals", "farfalle"})
        /\ "vegetarian" \in tags) =>
        LET supplemented(without) ==
                /\ without.exc = "none"
                /\ nutr.v["calories"] = without.v["calories"] + 100 * 15
                /\ nutr.v["total_fat_g"] =
                       Round1Of(Mul(Get(without, "total_fat_g"), Q(12, 10)))
                /\ nutr.v["total_fat_g"] >= without.v["total_fat_g"]
                /\ without.v["total_fat_g"] >= 30 =>
                      nutr.v["total_fat_g"] > without.v["total_fat_g"]
        IN  supplemented(estimate_nutrition(name, serving_size, tags \ {"vegetarian"}))

\* vegetarian mashed potatoes at a tenth of an ounce: 18 kcal against 3, and
\* 0.0 g of fat with and without the tag
C28_Witness ==
    /\ op = "estimate_nutrition"
    /\ name = "Mashed Potatoes"
    /\ serving_size = "0.1 oz"
    /\ tags = {"vegetarian"}
    /\ nutr.exc = "none"
    /\ nutr.v["calories"] = 100 * 18
    /\ nutr.v["total_fat_g"] = 0
    /\ estimate_nutrition(name, serving_size, {}).v["calories"] = 100 * 3

\* C29: through estimate_nutrition, estimator branches keyed on a keyword of
\* an earlier category rule are never taken: the pizza estimator is never
\* invoked with a name containing "pepperoni", "chicken" or "vegetable", the
\* salad estimator never with "spinach", the mexican estimator never with
\* "vegetable", the soup estimator never with "potato", and the second
\* "pad thai" check of categorize_food is never the rule that returns
C29_ShadowedBranchesDead ==
    op = "estimate_nutrition" =>
        /\ food_category = "pizza" =>
              ~AnyIn(Lower(name), {"pepperoni", "chicken", "vegetable"})
        /\ food_category = "salad" => ~Contains(Lower(name), "spinach")
        /\ food_category = "mexican" => ~Contains(Lower(name), "vegetable")
        /\ food_category = "soup" => ~Contains(Lower(name), "potato")
        /\ ReturnSite(name) # 14

\* a pepperoni pizza has been estimated by the protein estimator
C29_Witness ==
    /\ op = "estimate_nutrition"
    /\ Contains(Lower(name), "pizza")
    /\ Contains(Lower(name), "pepperoni")
    /\ food_category = "protein"
    /\ ReturnSite(name) = 2
    /\ nutr.exc = "none"
    /\ nutr.v["calories"] = 100 * 320

\* C30: for every item categorised protein whose name contains none of
\* "chicken", "salmon", "pork", "calamari", "pepperoni" and "meat sauce" (a
\* name matched only through "beef", "fish" or "meat"), the record
\* estimate_nutrition returns, for every serving-size text and tag set, has
\* all 21 fields at 0, calories and protein_g included
C30_UnknownProteinAllZero ==
    (op = "estimate_nutrition" /\ nutr.exc = "none" /\ food_category = "protein"
        /\ ~AnyIn(Lower(name), {"chicken", "salmon", "pork", "calamari", "pepperoni",
                                "meat sauce"})) =>
        /\ DOMAIN nutr.v = Fields
        /\ Cardinality(Fields) = 21
        /\ \A k \in Fields : nutr.v[k] = 0

\* a fried fish of three ounces, tagged with nuts, returned with 0 kcal and 0 g
\* of protein
C30_Witness ==
    /\ op = "estimate_nutrition"
    /\ name = "Fried Fish"
    /\ food_category = "protein"
    /\ serving_size = "3 oz"
    /\ "contains_nuts" \in tags
    /\ nutr.exc = "none"
    /\ nutr.v["calories"] = 0
    /\ nutr.v["protein_g"] = 0

====
